---- MODULE Spec2Model ----
(***************************************************************************)
(* Model of the cat collar OTA update orchestration                        *)
(* (yq-catcollar-mainboard/wifi_app).                                      *)
(*                                                                         *)
(* The enhanced OTA manager (wifi_ota_manager.c, lines 1-595) keeps its    *)
(* state in file-scope statics and takes no lock.  Four execution contexts *)
(* touch them: the caller thread (catcollar_ota_check_for_updates,         *)
(* catcollar_ota_start_update_with_retry), the periodic-timer context      *)
(* (ota_timer_callback), a control context calling catcollar_ota_abort,    *)
(* and the network context running ota_http_response_callback.  Every read *)
(* or write of a shared static is one step, labelled by its source line,   *)
(* and the steps of the four contexts interleave freely.                   *)
(***************************************************************************)
EXTENDS Integers, Sequences, FiniteSets, TLC

\* ------------------------------------------------------------------ bounds
\* Largest max_retries argument the caller passes.
MaxRetries == 1
\* Download completions the network may have outstanding at once.
MaxPending == 1
MaxField == 2
MaxTextLen == 7
MaxCount == 8
MaxSets == 2
\* Attempts and delays of one update that the history counters tell apart.
MaxAttempts == 257

\* ------------------------------------------------------- program constants
OTA_MAX_DNS_RETRY_COUNT == 5
OTA_MAX_RETRY_COUNT == 5
\* ota_retry_count and max_retries are uint8_t.
UINT8_MOD == 256
UINT8_MAX == 255
UINT16_MOD == 65536
CATCOLLAR_FIRMWARE_VERSION_MAJOR == 1
CATCOLLAR_FIRMWARE_VERSION_MINOR == 0
CATCOLLAR_FIRMWARE_VERSION_PATCH == 0
CATCOLLAR_FIRMWARE_VERSION_BUILD == 1

\* ------------------------------------------------------------------- types
catcollar_ota_state_t ==
    {"IDLE", "INITIALIZING", "RESOLVING_DNS", "CHECKING_VERSION", "DOWNLOADING",
     "VERIFYING", "INSTALLING", "REBOOTING", "SUCCESS", "FAILED"}

catcollar_ota_status_t ==
    {"NO_UPDATE_AVAILABLE", "UPDATE_AVAILABLE", "DOWNLOAD_IN_PROGRESS",
     "DOWNLOAD_SUCCESS", "DOWNLOAD_FAILED", "VERIFY_FAILED", "INSTALL_FAILED",
     "NETWORK_ERROR", "DNS_RESOLUTION_FAILED", "CERTIFICATE_ERROR",
     "TIMEOUT_ERROR"}

\* The sl_status_t values the manager returns; NONE: no value is held.
sl_status_t == {"NONE", "SL_STATUS_OK", "SL_STATUS_FAIL", "SL_STATUS_BUSY",
                "SL_STATUS_ABORT"}

\* The contexts that run a check or an update.
Ctx == {"caller", "timer"}

VARIABLES
    ota_current_state,      \* static catcollar_ota_state_t
    ota_last_status,        \* static catcollar_ota_status_t
    ota_response_received,  \* static volatile bool
    ota_operation_aborted,  \* static volatile bool
    ota_semaphore,          \* token count of osSemaphoreNew(1, 0, NULL)
    ota_retry_count,        \* static uint8_t
    max_retry_count,        \* ota_config.max_retry_count (uint8_t)
    pc,                     \* [Ctx -> label]: where each context stands
    ret,                    \* the value the caller's call returned
    sem_status,             \* local sem_status of ota_perform_update_with_retry
    dns_retry_count,        \* local of ota_resolve_dns_with_retry
    arg_max_retries,        \* argument of catcollar_ota_start_update_with_retry
    apc,                    \* where the control context stands in catcollar_ota_abort
    cpc,                    \* where the network context stands in the callback
    pending,                \* download completions the network still owes
    current_pending,        \* the running attempt's download is among them (history)
    completion,             \* what the running attempt's download reported (history)
    attempts,               \* attempts the running update has begun (history)
    delays,                 \* retry delays the running update has begun (history)
    dns_resolved,           \* a name resolution of the running update succeeded (history)
    remote_version,         \* what the server answers: {} (nothing usable) or {v};
                            \* the code never reads it
    outer,                  \* the call of catcollar_ota_check_and_update the
                            \* caller's operation is nested in: "none", "c218"
                            \* (its check) or "u226" (its update)
    abort_called,           \* how the caller's operation stood at an abort call (history)
    cmp_local,              \* the arguments local / current and remote / server
    cmp_remote,             \* given to the two version comparisons
    cmp_result,             \* what version_manager_compare_versions returned
    ota_newer,              \* what ota_compare_versions returned
    version_str,            \* the text given to parse_version_string
    parse_status,           \* what parse_version_string returned
    parsed_version,         \* the version it stored: {} (none) or {v}
    build_cfg,              \* how version_manager.c is built: "configured"
                            \* (USE_REAL_S3_VERSION_CHECK not defined) or the
                            \* real check with one of the two validators
    get_status,             \* what version_manager_get_remote_version returned
    vm_remote_version,      \* the version it stored: {} (none) or {v}
    ota_bytes_downloaded,   \* the two uint32_t progress counters, each as two
    ota_total_bytes,        \* 16-bit halves [hi, lo]
    percentage,             \* what catcollar_ota_get_progress_percentage
                            \* returned: {} (not called) or {p}
    ota_progress_callback,  \* the registered progress callback: "NULL" or its name
    cb_read,                \* the pointer the response callback read at line 562
    registrations,          \* the callbacks registered so far, in order (history)
    event,                  \* the completion event being handled: whether it
                            \* failed, the registrations made before it, the
                            \* callbacks it invoked and the arguments it
                            \* passed to them (history)
    wifi_ota,               \* the statics of the wifi_ota manager: a record
                            \* of current_ota_status, progress_callback,
                            \* complete_callback, ota_response and
                            \* ota_callback_status
    current_status,         \* static smart_ota_status_t of smart_ota
    wpc,                    \* where each thread using simple_ota / smart_ota is
    wlocals,                \* its frame: the entry point it came through (via),
                            \* the callbacks it passed, the status
                            \* wifi_ota_get_status had when it called
                            \* simple_ota_start (history) and the sl_status_t
                            \* of its last call
    wnet                    \* the downloads the network processor has
                            \* outstanding, and history: the calls made, the
                            \* errors passed to the completion callback since
                            \* wifi_ota_start_update last passed its guard,
                            \* and whether the response handler has run
                            \* since then

vars == <<ota_current_state, ota_last_status, ota_response_received,
          ota_operation_aborted, ota_semaphore, ota_retry_count,
          max_retry_count, pc, ret, sem_status, dns_retry_count,
          arg_max_retries, apc, cpc, pending, current_pending, completion,
          attempts, delays, dns_resolved, abort_called, remote_version,
          outer, cmp_local, cmp_remote, cmp_result, ota_newer, version_str,
          parse_status, parsed_version, build_cfg, get_status,
          vm_remote_version, ota_bytes_downloaded, ota_total_bytes,
          percentage, ota_progress_callback, cb_read, registrations, event,
          wifi_ota, current_status, wpc, wlocals, wnet>>

flags == <<ota_response_received, ota_operation_aborted>>
retry == <<ota_retry_count, max_retry_count>>
locals == <<sem_status, dns_retry_count, arg_max_retries>>
hist == <<attempts, delays, dns_resolved>>
own == <<current_pending, completion>>
\* What a step of the caller or the timer leaves alone besides the statics.
rest == <<apc, cpc, pending, own>>
\* What a step of the control or the network context leaves alone.
\* What no step of an operation, of abort or of the callback changes.
\* The arguments and results of the functions that are applied on their own,
\* and the state of the simple_ota / smart_ota variant, which shares nothing
\* with the manager.
variant == <<wifi_ota, current_status, wpc, wlocals, wnet>>
compared == <<cmp_local, cmp_remote, cmp_result, ota_newer>>
parsing == <<version_str, parse_status, parsed_version, build_cfg, get_status,
            vm_remote_version>>
progress == <<ota_bytes_downloaded, ota_total_bytes, percentage>>
pure == <<compared, parsing, progress, variant>>
observer == <<ota_progress_callback, cb_read, registrations, event>>
outside == <<remote_version, outer, pure, observer>>
threads == <<pc, ret, abort_called, locals, retry, hist, remote_version, outer,
             pure>>
ops == <<threads, observer>>

\* ------------------------------------------------------------ OS primitives
\* osSemaphoreRelease on a semaphore of maximum count 1 (line 96).
osSemaphoreRelease(s) == IF s < 1 THEN s + 1 ELSE s

\* ------------------------------------------------------------------ version
\* catcollar_firmware_version_t with every field up to MaxField.
Versions ==
    [major : 0..MaxField, minor : 0..MaxField, patch : 0..MaxField,
     build : 0..MaxField]

catcollar_get_current_version ==
    [major |-> CATCOLLAR_FIRMWARE_VERSION_MAJOR,
     minor |-> CATCOLLAR_FIRMWARE_VERSION_MINOR,
     patch |-> CATCOLLAR_FIRMWARE_VERSION_PATCH,
     build |-> CATCOLLAR_FIRMWARE_VERSION_BUILD]

\* A server answer equal to the running firmware.
ServerVersionSameAsLocal == catcollar_get_current_version

\* The simulated server answer: the local version with build + 1 (the build
\* field is a uint16_t).
ota_check_version_from_server ==
    [major |-> CATCOLLAR_FIRMWARE_VERSION_MAJOR,
     minor |-> CATCOLLAR_FIRMWARE_VERSION_MINOR,
     patch |-> CATCOLLAR_FIRMWARE_VERSION_PATCH,
     build |-> (CATCOLLAR_FIRMWARE_VERSION_BUILD + 1) % UINT16_MOD]

\* ota_compare_versions without the test of line 536: a lower patch no longer
\* ends the comparison.
OtaCompareSkippingLowerPatch(current, server) ==
    IF server.major > current.major THEN TRUE
    ELSE IF server.major < current.major THEN FALSE
    ELSE IF server.minor > current.minor THEN TRUE
    ELSE IF server.minor < current.minor THEN FALSE
    ELSE IF server.patch > current.patch THEN TRUE
    ELSE server.build > current.build

ota_compare_versions(current, server) ==
    IF server.major > current.major THEN TRUE
    ELSE IF server.major < current.major THEN FALSE
    ELSE IF server.minor > current.minor THEN TRUE
    ELSE IF server.minor < current.minor THEN FALSE
    ELSE IF server.patch > current.patch THEN TRUE
    ELSE IF server.patch < current.patch THEN FALSE
    ELSE server.build > current.build

\* version_manager_compare_versions without the test of line 254: an older
\* build is not told from the same build.
CompareIgnoringOlderBuild(local, remote) ==
    IF remote.major > local.major THEN "VERSION_NEWER"
    ELSE IF remote.major < local.major THEN "VERSION_OLDER"
    ELSE IF remote.minor > local.minor THEN "VERSION_NEWER"
    ELSE IF remote.minor < local.minor THEN "VERSION_OLDER"
    ELSE IF remote.patch > local.patch THEN "VERSION_NEWER"
    ELSE IF remote.patch < local.patch THEN "VERSION_OLDER"
    ELSE IF remote.build > local.build THEN "VERSION_NEWER"
    ELSE "VERSION_SAME"

\* version_manager.c lines 234-257 (both arguments given).
version_manager_compare_versions(local, remote) ==
    IF remote.major > local.major THEN "VERSION_NEWER"
    ELSE IF remote.major < local.major THEN "VERSION_OLDER"
    ELSE IF remote.minor > local.minor THEN "VERSION_NEWER"
    ELSE IF remote.minor < local.minor THEN "VERSION_OLDER"
    ELSE IF remote.patch > local.patch THEN "VERSION_NEWER"
    ELSE IF remote.patch < local.patch THEN "VERSION_OLDER"
    ELSE IF remote.build > local.build THEN "VERSION_NEWER"
    ELSE IF remote.build < local.build THEN "VERSION_OLDER"
    ELSE "VERSION_SAME"

\* lines 168-176: the status the check records for a pair of versions.
CheckOutcome(current, server) ==
    IF ota_compare_versions(current, server)
       THEN "UPDATE_AVAILABLE" ELSE "NO_UPDATE_AVAILABLE"

\* Unsigned arithmetic on numbers written as two halves: [hi, lo] stands for
\* hi * 2^16 + lo with lo below 2^16.  A uint32_t has hi below 2^16 too; an
\* intermediate result of the exact arithmetic may have a larger hi.
Wide(h, l) == [hi |-> h + (l \div UINT16_MOD), lo |-> l % UINT16_MOD]
Zero32 == Wide(0, 0)
Max32 == Wide(UINT16_MOD - 1, UINT16_MOD - 1)

\* -------------------------------------------------------------------- init
\* No completion event is being handled.
NoEvent == [failed |-> FALSE, after |-> <<>>, invoked |-> <<>>, args |-> <<>>]

\* catcollar_ota_init: the default configuration, the semaphore created
\* empty, then ota_reset_state.
ManagerInit ==
    /\ ota_current_state = "IDLE"
    /\ ota_last_status = "NO_UPDATE_AVAILABLE"
    /\ ota_response_received = FALSE
    /\ ota_operation_aborted = FALSE
    /\ ota_semaphore = 0
    /\ ota_retry_count = 0
    /\ max_retry_count = OTA_MAX_RETRY_COUNT
    /\ pc = [c \in Ctx |-> "idle"]
    /\ ret = "NONE"
    /\ sem_status = "osOK"
    /\ dns_retry_count = 0
    /\ arg_max_retries = 0
    /\ apc = "idle"
    /\ cpc = "idle"
    /\ pending = 0
    /\ current_pending = FALSE
    /\ completion = "none"
    /\ attempts = 0
    /\ delays = 0
    /\ dns_resolved = FALSE
    /\ remote_version = {catcollar_get_current_version}
    /\ outer = "none"
    /\ abort_called = "none"
    /\ ota_progress_callback = "NULL"
    /\ cb_read = "NULL"
    /\ registrations = <<>>
    /\ event = NoEvent

\* The threads that use simple_ota and smart_ota.
WThreads == {"app", "other"}

\* wifi_ota_init (lines 60-64) and the initializers of the statics (lines
\* 18-22).
wifi_ota_init ==
    [current_ota_status |-> "IDLE", progress_callback |-> "NULL",
     complete_callback |-> "NULL", ota_response |-> FALSE,
     ota_callback_status |-> "SL_STATUS_OK"]

NoFrame ==
    [via |-> "none", progress_cb |-> "NULL", complete_cb |-> "NULL",
     at_call |-> "IDLE", status |-> "NONE"]

\* Nothing of the variant has run: the statics have their initializers
\* (wifi_ota lines 18-22, smart_ota line 786).
VariantInit ==
    /\ wifi_ota = wifi_ota_init
    /\ current_status = "IDLE"
    /\ wpc = [t \in WThreads |-> "idle"]
    /\ wlocals = [t \in WThreads |-> NoFrame]
    /\ wnet = [outstanding |-> 0, calls |-> 0, completions |-> <<>>,
               reported |-> FALSE]

\* No function has been applied on its own.
Init ==
    /\ ManagerInit
    /\ VariantInit
    /\ cmp_local = catcollar_get_current_version
    /\ cmp_remote = catcollar_get_current_version
    /\ cmp_result = "NONE"
    /\ ota_newer = "NONE"
    /\ version_str = <<>>
    /\ parse_status = "NONE"
    /\ parsed_version = {}
    /\ build_cfg = "configured"
    /\ get_status = "NONE"
    /\ vm_remote_version = {}
    /\ ota_bytes_downloaded = [hi |-> 0, lo |-> 0]
    /\ ota_total_bytes = [hi |-> 0, lo |-> 0]
    /\ percentage = {}

\* Context c returns v from the public call it is in.  The caller thread holds
\* the value; ota_timer_callback discards it (line 578) and ends.
Return(c, v) ==
    /\ pc' = [pc EXCEPT ![c] = IF c = "caller" THEN "ret" ELSE "idle"]
    /\ ret' = IF c = "caller" THEN v ELSE ret
    /\ abort_called' = IF c = "caller" THEN "none" ELSE abort_called
    /\ UNCHANGED outside

Goto(c, l) ==
    /\ pc' = [pc EXCEPT ![c] = l]
    /\ UNCHANGED <<ret, abort_called, outside>>

\* Context c is inside catcollar_ota_check_for_updates, past its guard.
InCheck(c) == pc[c] \in {"c145", "c168", "c171", "c175"}

\* Context c is inside catcollar_ota_start_update_with_retry, past its guard.
InUpdate(c) ==
    pc[c] \in {"u202", "u349", "u357", "u360", "u361", "u366", "d460", "d475",
               "d478", "u370", "u376", "u377", "u405", "u409", "u410", "u412",
               "u413", "u416", "u426", "u430", "u435", "u441", "u447"}

\* Context c has passed a 'state == Idle' guard and has not returned yet.
Active(c) == InCheck(c) \/ InUpdate(c)

\* ------------------------------------------ catcollar_ota_check_for_updates
\* The caller calls catcollar_ota_check_for_updates, or the timer fires and
\* ota_timer_callback calls it; lines 134-138 read the WiFi connection state,
\* which the environment decides.
CheckEnter(c) ==
    /\ pc[c] = "idle"
    /\ c = "caller" => outer # "u226"
    /\ \E connected \in BOOLEAN :
          IF ~connected
             THEN /\ ota_last_status' = "NETWORK_ERROR"
                  /\ Return(c, "SL_STATUS_FAIL")
             ELSE /\ Goto(c, "c140")
                  /\ UNCHANGED ota_last_status
    /\ UNCHANGED <<ota_current_state, flags, ota_semaphore, retry, locals,
                   hist, rest>>

\* lines 140-143
CheckGuard(c) ==
    /\ pc[c] = "c140"
    /\ IF ota_current_state # "IDLE"
          THEN Return(c, "SL_STATUS_BUSY")
          ELSE Goto(c, "c145")
    /\ UNCHANGED <<ota_current_state, ota_last_status, flags, ota_semaphore,
                   retry, locals, hist, rest>>

\* line 145
CheckSetState(c) ==
    /\ pc[c] = "c145"
    /\ ota_current_state' = "CHECKING_VERSION"
    /\ Goto(c, "c168")
    /\ UNCHANGED <<ota_last_status, flags, ota_semaphore, retry, locals, hist,
                   rest>>

\* lines 149-170 / 174: the server version is obtained (always SL_STATUS_OK),
\* the versions are compared and the state goes back to Idle.
CheckCompare(c) ==
    /\ pc[c] = "c168"
    /\ ota_current_state' = "IDLE"
    /\ Goto(c, IF CheckOutcome(catcollar_get_current_version,
                               ota_check_version_from_server)
                     = "UPDATE_AVAILABLE"
                  THEN "c171" ELSE "c175")
    /\ UNCHANGED <<ota_last_status, flags, ota_semaphore, retry, locals, hist,
                   rest>>

\* Lines 171 / 175 and 178 followed, in the timer callback, by an automatic
\* start of the download when an update is available (the callback of lines
\* 571-584 only logs it).
CheckSetStatusAutoInstall(c) ==
    /\ pc[c] \in {"c171", "c175"}
    /\ ota_last_status' = IF pc[c] = "c171" THEN "UPDATE_AVAILABLE"
                                             ELSE "NO_UPDATE_AVAILABLE"
    /\ Return(c, "SL_STATUS_OK")
    /\ IF c = "timer" /\ pc[c] = "c171"
          THEN ota_current_state' = "DOWNLOADING"
          ELSE UNCHANGED ota_current_state
    /\ UNCHANGED <<flags, ota_semaphore, retry, locals, hist, rest>>

\* line 171 / 175, then line 178
CheckSetStatus(c) ==
    /\ pc[c] \in {"c171", "c175"}
    /\ ota_last_status' = IF pc[c] = "c171" THEN "UPDATE_AVAILABLE"
                                             ELSE "NO_UPDATE_AVAILABLE"
    /\ Return(c, "SL_STATUS_OK")
    /\ UNCHANGED <<ota_current_state, flags, ota_semaphore, retry, locals,
                   hist, rest>>

\* The caller has taken the returned value; it is free for its next call.
Returned ==
    /\ pc["caller"] = "ret"
    /\ outer = "none"
    /\ pc' = [pc EXCEPT !["caller"] = "idle"]
    /\ ret' = "NONE"
    /\ UNCHANGED <<abort_called, ota_current_state, ota_last_status, flags,
                   ota_semaphore,
                   retry, locals, hist, rest, outside>>

\* ------------------------------------------------------ catcollar_ota_abort
AbortCall ==
    /\ apc = "idle"
    /\ apc' = "a282"
    /\ UNCHANGED <<ota_current_state, ota_last_status, flags, ota_semaphore,
                   pc, ret, locals, retry, hist, cpc, pending, own, outside>>

\* line 282
AbortSetFlag ==
    /\ apc = "a282"
    /\ ota_operation_aborted' = TRUE
    /\ apc' = "a283"
    /\ UNCHANGED <<ota_current_state, ota_last_status, ota_response_received,
                   ota_semaphore, ops, cpc, pending, own>>

\* line 283
AbortSetState ==
    /\ apc = "a283"
    /\ ota_current_state' = "FAILED"
    /\ apc' = "a284"
    /\ UNCHANGED <<ota_last_status, flags, ota_semaphore, ops, cpc, pending, own>>

\* line 284
AbortSetStatus ==
    /\ apc = "a284"
    /\ ota_last_status' = "DOWNLOAD_FAILED"
    /\ apc' = "a287"
    /\ UNCHANGED <<ota_current_state, flags, ota_semaphore, ops, cpc, pending, own>>

\* lines 287-289
AbortRelease ==
    /\ apc = "a287"
    /\ ota_semaphore' = osSemaphoreRelease(ota_semaphore)
    /\ apc' = "idle"
    /\ UNCHANGED <<ota_current_state, ota_last_status, flags, ops, cpc,
                   pending, own>>

\* ----------------------------------------------- ota_http_response_callback
\* The network context delivers the completion event of an outstanding
\* download; failed is SL_WIFI_CHECK_IF_EVENT_FAILED(event) (line 552).
CallbackEnter(failed) ==
    /\ cpc = "idle"
    /\ pending > 0
    /\ pending' = pending - 1
    /\ \E current \in BOOLEAN :
          /\ current => current_pending
          /\ ~current => pending > (IF current_pending THEN 1 ELSE 0)
          /\ current_pending' = (current_pending /\ ~current)
          /\ completion' = IF ~current THEN completion
                            ELSE IF failed THEN "failed" ELSE "ok"
    /\ cpc' = IF failed THEN "h554" ELSE "h559"
    /\ event' = [failed |-> failed, after |-> registrations, invoked |-> <<>>,
                 args |-> <<>>]
    /\ UNCHANGED <<ota_current_state, ota_last_status, flags, ota_semaphore,
                   threads, ota_progress_callback, cb_read, registrations, apc>>

\* A handler that accounts for the image it has received: on success the two
\* progress counters are set to the size of the image.
CallbackCountsBytes ==
    /\ cpc \in {"h554", "h559"}
    /\ ota_response_received' = (cpc = "h559")
    /\ cb_read' = IF cpc = "h559" THEN ota_progress_callback ELSE cb_read
    /\ ota_bytes_downloaded' = IF cpc = "h559" THEN Wide(0, 1)
                                ELSE ota_bytes_downloaded
    /\ ota_total_bytes' = IF cpc = "h559" THEN Wide(0, 1) ELSE ota_total_bytes
    /\ cpc' = IF cpc = "h554" THEN "h555"
              ELSE IF ota_progress_callback # "NULL" THEN "h563" ELSE "h567"
    /\ UNCHANGED <<ota_current_state, ota_last_status, ota_operation_aborted,
                   ota_semaphore, pc, ret, abort_called, locals, retry, hist,
                   remote_version, outer, variant, compared, parsing, percentage,
                   ota_progress_callback, registrations, event, apc, pending,
                   own>>

\* line 554 / lines 559-562.  On success the flag is set and the callback
\* pointer is read and tested; no other context reads the pointer or tells
\* the two statements apart, so they are one step.
CallbackSetResponse ==
    /\ cpc \in {"h554", "h559"}
    /\ ota_response_received' = (cpc = "h559")
    /\ cb_read' = IF cpc = "h559" THEN ota_progress_callback ELSE cb_read
    /\ cpc' = IF cpc = "h554" THEN "h555"
              ELSE IF ota_progress_callback # "NULL" THEN "h563" ELSE "h567"
    /\ UNCHANGED <<ota_current_state, ota_last_status, ota_operation_aborted,
                   ota_semaphore, threads, ota_progress_callback, registrations,
                   event, apc, pending, own>>

\* line 555
CallbackSetState ==
    /\ cpc = "h555"
    /\ ota_current_state' = "FAILED"
    /\ cpc' = "h556"
    /\ UNCHANGED <<ota_last_status, flags, ota_semaphore, ops, apc, pending, own>>

\* line 556
CallbackSetStatus ==
    /\ cpc = "h556"
    /\ ota_last_status' = "DOWNLOAD_FAILED"
    /\ cpc' = "h567"
    /\ UNCHANGED <<ota_current_state, flags, ota_semaphore, ops, apc, pending, own>>

\* A manager that keeps a list of observers: every callback registered so far
\* is called.
CallbackInvokeEveryObserver ==
    /\ cpc = "h563"
    /\ event' = [event EXCEPT !.invoked = @ \o registrations]
    /\ cpc' = "h567"
    /\ UNCHANGED <<ota_current_state, ota_last_status, flags, ota_semaphore,
                   threads, ota_progress_callback, cb_read, registrations, apc,
                   pending, own>>

\* line 563: the callback is called.  Nothing orders the two reads of the
\* pointer against a registration made meanwhile: the call goes to the value
\* tested or to the value the pointer holds now.
CallbackInvokeProgress ==
    /\ cpc = "h563"
    /\ \E cb \in {cb_read, ota_progress_callback} :
          event' = [event EXCEPT
                       !.invoked = Append(@, cb),
                       !.args = Append(@, <<ota_bytes_downloaded,
                                            ota_total_bytes>>)]
    /\ cpc' = "h567"
    /\ UNCHANGED <<ota_current_state, ota_last_status, flags, ota_semaphore,
                   threads, ota_progress_callback, cb_read, registrations, apc,
                   pending, own>>

\* lines 567-568
CallbackRelease ==
    /\ cpc = "h567"
    /\ ota_semaphore' = osSemaphoreRelease(ota_semaphore)
    /\ cpc' = "idle"
    /\ cb_read' = "NULL"
    /\ event' = NoEvent
    /\ UNCHANGED <<ota_current_state, ota_last_status, flags, threads,
                   ota_progress_callback, registrations, apc, pending, own>>

\* ---------------------------------------- catcollar_ota_set_progress_callback
\* lines 302-306, called from the control context.
Callbacks == {"cb1", "cb2"}

SetProgressCallback(callback) ==
    /\ Len(registrations) < MaxSets
    /\ ota_progress_callback' = callback
    /\ registrations' = Append(registrations, callback)
    /\ UNCHANGED <<ota_current_state, ota_last_status, flags, ota_semaphore,
                   threads, cb_read, event, rest>>

\* ------------------------------------ catcollar_ota_start_update_with_retry
\* The caller calls catcollar_ota_start_update_with_retry(m); lines 191-195
\* read the WiFi connection state.
StartEnter(m) ==
    /\ pc["caller"] = "idle"
    /\ outer # "c218"
    /\ \E connected \in BOOLEAN :
          IF ~connected
             THEN /\ ota_last_status' = "NETWORK_ERROR"
                  /\ Return("caller", "SL_STATUS_FAIL")
                  /\ UNCHANGED arg_max_retries
             ELSE /\ Goto("caller", "u197")
                  /\ arg_max_retries' = m
                  /\ UNCHANGED ota_last_status
    /\ UNCHANGED <<ota_current_state, flags, ota_semaphore, retry, sem_status,
                   dns_retry_count, hist, rest>>

\* lines 197-200; on the Busy side the argument is dead.
StartGuard ==
    /\ pc["caller"] = "u197"
    /\ IF ota_current_state # "IDLE"
          THEN /\ Return("caller", "SL_STATUS_BUSY")
               /\ arg_max_retries' = 0
          ELSE /\ Goto("caller", "u202")
               /\ UNCHANGED arg_max_retries
    /\ UNCHANGED <<ota_current_state, ota_last_status, flags, ota_semaphore,
                   retry, sem_status, dns_retry_count, hist, rest>>

\* lines 202-204; the argument is dead from here on.
StartReset ==
    /\ pc["caller"] = "u202"
    /\ ota_retry_count' = 0
    /\ ota_operation_aborted' = FALSE
    /\ max_retry_count' = arg_max_retries
    /\ arg_max_retries' = 0
    /\ attempts' = 0
    /\ delays' = 0
    /\ dns_resolved' = FALSE
    /\ Goto("caller", "u349")
    /\ UNCHANGED <<ota_current_state, ota_last_status, ota_response_received,
                   ota_semaphore, sem_status, dns_retry_count, rest>>

\* ------------------------------------------- ota_perform_update_with_retry
\* The history counters stop counting at MaxAttempts.
Count(n) == IF n < MaxAttempts THEN n + 1 ELSE n

\* lines 349-358: the loop condition, the abort check, the retry delay test.
LoopHead ==
    /\ pc["caller"] = "u349"
    /\ IF ota_retry_count > max_retry_count
          THEN Goto("caller", "u447")
          ELSE IF ota_operation_aborted
                  THEN Return("caller", "SL_STATUS_ABORT")
                  ELSE IF ota_retry_count > 0
                          THEN Goto("caller", "u357")
                          ELSE Goto("caller", "u360")
    /\ UNCHANGED <<ota_current_state, ota_last_status, flags, ota_semaphore,
                   retry, locals, hist, rest>>

\* line 357: osDelay(5000)
RetryDelay ==
    /\ pc["caller"] = "u357"
    /\ delays' = Count(delays)
    /\ Goto("caller", "u360")
    /\ UNCHANGED <<ota_current_state, ota_last_status, flags, ota_semaphore,
                   retry, locals, attempts, dns_resolved, rest>>

\* line 360
SetInitializing ==
    /\ pc["caller"] = "u360"
    /\ ota_current_state' = "INITIALIZING"
    /\ attempts' = Count(attempts)
    /\ Goto("caller", "u361")
    /\ UNCHANGED <<ota_last_status, flags, ota_semaphore, retry, locals,
                   delays, dns_resolved, rest>>

\* lines 361-363: the response flag and both progress counters are cleared
ResetResponse ==
    /\ pc["caller"] = "u361"
    /\ ota_response_received' = FALSE
    /\ ota_bytes_downloaded' = Zero32
    /\ ota_total_bytes' = Zero32
    /\ pc' = [pc EXCEPT !["caller"] = "u366"]
    /\ UNCHANGED <<ota_current_state, ota_last_status, ota_operation_aborted,
                   ota_semaphore, retry, locals, hist, rest, ret, abort_called,
                   remote_version, outer, variant, compared, parsing, percentage,
                   observer>>

\* line 366, then the entry of ota_resolve_dns_with_retry (line 454)
SetResolvingDns ==
    /\ pc["caller"] = "u366"
    /\ ota_current_state' = "RESOLVING_DNS"
    /\ dns_retry_count' = 0
    /\ Goto("caller", "d460")
    /\ UNCHANGED <<ota_last_status, flags, ota_semaphore, retry, sem_status,
                   arg_max_retries, hist, rest>>

\* ------------------------------------------------ ota_resolve_dns_with_retry
\* lines 460-474: one sl_net_dns_resolve_hostname call; the environment
\* decides its outcome.
DnsResolve ==
    /\ pc["caller"] = "d460"
    /\ \E resolved \in BOOLEAN :
          IF resolved
             THEN /\ dns_retry_count' = 0
                  /\ dns_resolved' = TRUE
                  /\ Goto("caller", "u376")
             ELSE /\ dns_retry_count' = dns_retry_count + 1
                  /\ UNCHANGED dns_resolved
                  /\ Goto("caller",
                          IF dns_retry_count + 1 < OTA_MAX_DNS_RETRY_COUNT
                             THEN "d475" ELSE "d478")
    /\ UNCHANGED <<ota_current_state, ota_last_status, flags, ota_semaphore,
                   retry, sem_status, arg_max_retries, attempts, delays, rest>>

\* line 475: osDelay(2000)
DnsDelay ==
    /\ pc["caller"] = "d475"
    /\ Goto("caller", "d478")
    /\ UNCHANGED <<ota_current_state, ota_last_status, flags, ota_semaphore,
                   retry, locals, hist, rest>>

\* Line 478 with <= in place of <: the loop would go round once more after
\* the last allowed attempt.
DnsWhileOffByOne ==
    /\ pc["caller"] = "d478"
    /\ IF dns_retry_count <= OTA_MAX_DNS_RETRY_COUNT /\ ~ota_operation_aborted
          THEN /\ Goto("caller", "d460")
               /\ UNCHANGED dns_retry_count
          ELSE /\ Goto("caller", "u370")
               /\ dns_retry_count' = 0
    /\ UNCHANGED <<ota_current_state, ota_last_status, flags, ota_semaphore,
                   retry, sem_status, arg_max_retries, hist, rest>>

\* line 478: the while condition; on exit the resolver returns SL_STATUS_FAIL.
DnsWhile ==
    /\ pc["caller"] = "d478"
    /\ IF dns_retry_count < OTA_MAX_DNS_RETRY_COUNT /\ ~ota_operation_aborted
          THEN /\ Goto("caller", "d460")
               /\ UNCHANGED dns_retry_count
          ELSE /\ Goto("caller", "u370")
               /\ dns_retry_count' = 0
    /\ UNCHANGED <<ota_current_state, ota_last_status, flags, ota_semaphore,
                   retry, sem_status, arg_max_retries, hist, rest>>

\* The uint8_t increment of the for loop (line 349).
NextRetry(n) == (n + 1) % UINT8_MOD

\* lines 368-372: DNS failed; continue goes to the loop increment.
DnsFailed ==
    /\ pc["caller"] = "u370"
    /\ ota_last_status' = "DNS_RESOLUTION_FAILED"
    /\ ota_retry_count' = NextRetry(ota_retry_count)
    /\ Goto("caller", "u349")
    /\ UNCHANGED <<ota_current_state, flags, ota_semaphore, max_retry_count,
                   locals, hist, rest>>

\* line 376
SetDownloading ==
    /\ pc["caller"] = "u376"
    /\ ota_current_state' = "DOWNLOADING"
    /\ Goto("caller", "u377")
    /\ UNCHANGED <<ota_last_status, flags, ota_semaphore, retry, locals, hist,
                   rest>>

\* line 377
SetInProgress ==
    /\ pc["caller"] = "u377"
    /\ ota_last_status' = "DOWNLOAD_IN_PROGRESS"
    /\ Goto("caller", "u405")
    /\ UNCHANGED <<ota_current_state, flags, ota_semaphore, retry, locals,
                   hist, rest>>

\* lines 405-407: sl_si91x_http_otaf_v2 either starts the download
\* (SL_STATUS_IN_PROGRESS; the network now owes a completion event) or
\* returns an error.
OtafStart ==
    /\ pc["caller"] = "u405"
    /\ \/ /\ pending < MaxPending
          /\ pending' = pending + 1
          /\ current_pending' = TRUE
          /\ Goto("caller", "u409")
       \/ /\ Goto("caller", "u441")
          /\ UNCHANGED <<pending, current_pending>>
    /\ UNCHANGED <<ota_current_state, ota_last_status, flags, ota_semaphore,
                   retry, locals, hist, apc, cpc, completion>>

\* line 409: osSemaphoreAcquire(ota_semaphore, timeout_ms) takes a token if
\* there is one; with none the wait may run out.
SemAcquire ==
    /\ pc["caller"] = "u409"
    /\ IF ota_semaphore > 0
          THEN /\ ota_semaphore' = ota_semaphore - 1
               /\ sem_status' = "osOK"
          ELSE /\ sem_status' = "osErrorTimeout"
               /\ UNCHANGED ota_semaphore
    /\ Goto("caller", "u410")
    /\ UNCHANGED <<ota_current_state, ota_last_status, flags, retry,
                   dns_retry_count, arg_max_retries, hist, rest>>

\* line 410, and line 430 on the else side.  sem_status is read for the last
\* time at line 435; a local that is dead is set back to osOK.
DownloadTest ==
    /\ pc["caller"] = "u410"
    /\ IF sem_status = "osOK" /\ ota_response_received /\ ~ota_operation_aborted
          THEN /\ Goto("caller", "u412")
               /\ sem_status' = "osOK"
          ELSE /\ Goto("caller", "u430")
               /\ UNCHANGED sem_status
    /\ UNCHANGED <<ota_current_state, ota_last_status, flags, ota_semaphore,
                   retry, dns_retry_count, arg_max_retries, hist, rest>>

\* line 412
SetInstalling ==
    /\ pc["caller"] = "u412"
    /\ ota_current_state' = "INSTALLING"
    /\ Goto("caller", "u413")
    /\ UNCHANGED <<ota_last_status, flags, ota_semaphore, retry, locals, hist,
                   rest>>

\* line 413
SetDownloadSuccess ==
    /\ pc["caller"] = "u413"
    /\ ota_last_status' = "DOWNLOAD_SUCCESS"
    /\ Goto("caller", "u416")
    /\ UNCHANGED <<ota_current_state, flags, ota_semaphore, retry, locals,
                   hist, rest>>

\* line 416
SetRebooting ==
    /\ pc["caller"] = "u416"
    /\ ota_current_state' = "REBOOTING"
    /\ Goto("caller", "u426")
    /\ UNCHANGED <<ota_last_status, flags, ota_semaphore, retry, locals, hist,
                   rest>>

\* lines 426-427 (OTA_FW_UPDATE_TYPE is TA_FW_UPDATE: no reset at 419-424)
SetSuccess ==
    /\ pc["caller"] = "u426"
    /\ ota_current_state' = "SUCCESS"
    /\ Return("caller", "SL_STATUS_OK")
    /\ current_pending' = FALSE
    /\ completion' = "none"
    /\ UNCHANGED <<ota_last_status, flags, ota_semaphore, retry, locals, hist,
                   apc, cpc, pending>>

\* lines 430-433
AbortTest ==
    /\ pc["caller"] = "u430"
    /\ IF ota_operation_aborted
          THEN /\ Return("caller", "SL_STATUS_ABORT")
               /\ sem_status' = "osOK"
          ELSE /\ Goto("caller", "u435")
               /\ UNCHANGED sem_status
    /\ current_pending' = (current_pending /\ ~ota_operation_aborted)
    /\ completion' = IF ota_operation_aborted THEN "none" ELSE completion
    /\ UNCHANGED <<ota_current_state, ota_last_status, flags, ota_semaphore,
                   retry, dns_retry_count, arg_max_retries, hist, apc, cpc,
                   pending>>

\* lines 435-436, then the loop increment
DownloadFailed ==
    /\ pc["caller"] = "u435"
    /\ ota_last_status' = IF sem_status = "osErrorTimeout"
                             THEN "TIMEOUT_ERROR" ELSE "DOWNLOAD_FAILED"
    /\ sem_status' = "osOK"
    /\ ota_retry_count' = NextRetry(ota_retry_count)
    /\ Goto("caller", "u349")
    /\ current_pending' = FALSE
    /\ completion' = "none"
    /\ UNCHANGED <<ota_current_state, flags, ota_semaphore, max_retry_count,
                   dns_retry_count, arg_max_retries, hist, apc, cpc,
                   pending>>

\* lines 439-441, then the loop increment
StartFailed ==
    /\ pc["caller"] = "u441"
    /\ ota_last_status' = "DOWNLOAD_FAILED"
    /\ ota_retry_count' = NextRetry(ota_retry_count)
    /\ Goto("caller", "u349")
    /\ UNCHANGED <<ota_current_state, flags, ota_semaphore, max_retry_count,
                   locals, hist, rest>>

\* lines 447-448
RetriesExhausted ==
    /\ pc["caller"] = "u447"
    /\ ota_current_state' = "FAILED"
    /\ Return("caller", "SL_STATUS_FAIL")
    /\ UNCHANGED <<ota_last_status, flags, ota_semaphore, retry, locals, hist,
                   rest>>

\* ------------------------------------------ catcollar_ota_check_and_update
\* line 218: the caller calls catcollar_ota_check_and_update, which calls
\* catcollar_ota_check_for_updates.
CheckAndUpdateCall ==
    /\ pc["caller"] = "idle"
    /\ outer = "none"
    /\ outer' = "c218"
    /\ UNCHANGED <<ota_current_state, ota_last_status, flags, ota_semaphore,
                   pc, ret, abort_called, locals, retry, hist, rest,
                   remote_version, pure, observer>>

\* lines 219-230: the check has returned.  Its error is returned as it is;
\* otherwise ota_last_status is read and, when it is UPDATE_AVAILABLE,
\* catcollar_ota_start_update is called (line 226).
CheckAndUpdateDecide ==
    /\ pc["caller"] = "ret"
    /\ outer = "c218"
    /\ IF ret = "SL_STATUS_OK" /\ ota_last_status = "UPDATE_AVAILABLE"
          THEN /\ outer' = "u226"
               /\ pc' = [pc EXCEPT !["caller"] = "idle"]
               /\ ret' = "NONE"
          ELSE /\ outer' = "none"
               /\ UNCHANGED <<pc, ret>>
    /\ UNCHANGED <<ota_current_state, ota_last_status, flags, ota_semaphore,
                   abort_called, locals, retry, hist, rest, remote_version,
                   pure, observer>>

\* lines 181-184: catcollar_ota_start_update passes
\* ota_config.max_retry_count.
catcollar_ota_start_update == StartEnter(max_retry_count)

\* line 232: the update has returned; its status is returned as it is.
CheckAndUpdateReturn ==
    /\ pc["caller"] = "ret"
    /\ outer = "u226"
    /\ outer' = "none"
    /\ UNCHANGED <<ota_current_state, ota_last_status, flags, ota_semaphore,
                   pc, ret, abort_called, locals, retry, hist, rest,
                   remote_version, pure, observer>>

\* ---------------------------------------------------------- specification
CheckStep == \E c \in Ctx :
    CheckEnter(c) \/ CheckGuard(c) \/ CheckSetState(c) \/ CheckCompare(c)
        \/ CheckSetStatus(c)

UpdateStep ==
    \/ StartGuard \/ StartReset \/ LoopHead \/ RetryDelay \/ SetInitializing
    \/ ResetResponse \/ SetResolvingDns \/ DnsResolve \/ DnsDelay \/ DnsWhile
    \/ DnsFailed \/ SetDownloading \/ SetInProgress \/ OtafStart \/ SemAcquire
    \/ DownloadTest \/ SetInstalling \/ SetDownloadSuccess \/ SetRebooting
    \/ SetSuccess \/ AbortTest \/ DownloadFailed \/ StartFailed
    \/ RetriesExhausted

AbortStep ==
    AbortSetFlag \/ AbortSetState \/ AbortSetStatus \/ AbortRelease

\* How the caller's operation stands: not past a guard; accepted, the state
\* still Idle; blocked in the download wait with state Downloading; or running
\* anywhere else.
Standing ==
    IF ~Active("caller") THEN "none"
    ELSE IF ota_current_state = "IDLE" THEN "accepted"
    ELSE IF pc["caller"] = "u409" /\ ota_current_state = "DOWNLOADING"
            THEN "waiting"
    ELSE "running"

\* The control context calls catcollar_ota_abort.
AbortCalled == AbortCall /\ UNCHANGED abort_called

\* The same call, the first one during an operation of the caller recorded.
AbortCalledRecorded ==
    /\ AbortCall
    /\ abort_called' = IF abort_called # "none" THEN abort_called ELSE Standing

\* Line 563 is left to the specification in which a progress callback is
\* registered: without one the test of line 562 never lets it run.
CallbackStep ==
    \/ \E failed \in BOOLEAN : CallbackEnter(failed)
    \/ CallbackSetResponse \/ CallbackSetState \/ CallbackSetStatus
    \/ CallbackRelease

\* All four contexts.
Next ==
    \/ CheckStep
    \/ \E m \in 0..MaxRetries : StartEnter(m)
    \/ UpdateStep
    \/ Returned
    \/ AbortCalled
    \/ AbortStep
    \/ CallbackStep

Spec == Init /\ [][Next]_vars

\* The periodic check is not started (catcollar_ota_start_periodic_check is not
\* called): the caller thread, the control context and the network context.
\* How the caller's operation stood when abort was called is recorded.
CallerCheckStep ==
    \/ CheckEnter("caller") \/ CheckGuard("caller") \/ CheckSetState("caller")
    \/ CheckCompare("caller") \/ CheckSetStatus("caller")

AbortNext ==
    \/ CallerCheckStep
    \/ \E m \in 0..MaxRetries : StartEnter(m)
    \/ UpdateStep
    \/ Returned
    \/ AbortCalledRecorded
    \/ AbortStep
    \/ CallbackStep

SpecAbort == Init /\ [][AbortNext]_vars

\* Updates only, nobody aborts: the caller thread starts updates with a small
\* retry budget or with the largest one a uint8_t holds, and the network
\* context completes the downloads.
RetryArgs == (0..MaxRetries) \cup {UINT8_MAX}

RetryNext ==
    \/ \E m \in RetryArgs : StartEnter(m)
    \/ UpdateStep
    \/ Returned
    \/ CallbackStep

SpecRetry == Init /\ [][RetryNext]_vars

\* Updates of the caller thread, the network context completing the
\* downloads, and the control context registering progress callbacks.
ObserverNext ==
    \/ \E m \in 0..MaxRetries : StartEnter(m)
    \/ UpdateStep
    \/ Returned
    \/ CallbackStep
    \/ CallbackInvokeProgress
    \/ \E cb \in Callbacks : SetProgressCallback(cb)

SpecObserver == Init /\ [][ObserverNext]_vars

\* The periodic check is not started.  The caller thread keeps calling the
\* manager: it calls catcollar_ota_check_for_updates again and again and
\* catcollar_ota_start_update_with_retry again and again, and every context
\* that can take a step takes it.  catcollar_ota_init is not called again.
RecoverNext ==
    \/ CallerCheckStep
    \/ \E m \in 0..MaxRetries : StartEnter(m)
    \/ UpdateStep
    \/ Returned
    \/ AbortCalled
    \/ AbortStep
    \/ CallbackStep

SpecRecover ==
    /\ Init
    /\ [][RecoverNext]_vars
    /\ SF_vars(CheckEnter("caller"))
    /\ SF_vars(\E m \in 0..MaxRetries : StartEnter(m))
    /\ WF_vars(CallerCheckStep \/ UpdateStep \/ Returned)
    /\ WF_vars(AbortStep)
    /\ WF_vars(CallbackStep)

\* No completion event and no abort ever arrives: the network drops the
\* completion it owes (the download dies silently), so the caller's waits can
\* only run out.
CompletionLost ==
    /\ pending > 0
    /\ cpc = "idle"
    /\ pending' = pending - 1
    /\ current_pending' = FALSE
    /\ UNCHANGED <<ota_current_state, ota_last_status, flags, ota_semaphore,
                   ops, apc, cpc, completion>>

\* The steps of an update whose downloads are never completed.
TimeoutSteps ==
    \/ StartGuard \/ StartReset \/ LoopHead \/ RetryDelay \/ SetInitializing
    \/ ResetResponse \/ SetResolvingDns \/ DnsResolve \/ DnsDelay \/ DnsWhile
    \/ DnsFailed \/ SetDownloading \/ SetInProgress \/ OtafStart \/ SemAcquire
    \/ DownloadTest \/ AbortTest \/ DownloadFailed \/ StartFailed
    \/ RetriesExhausted

TimeoutNext ==
    \/ \E m \in RetryArgs : StartEnter(m)
    \/ TimeoutSteps
    \/ Returned
    \/ CompletionLost

\* The caller thread keeps being scheduled, and osDelay, the name resolution
\* (OTA_DNS_TIMEOUT_MS) and osSemaphoreAcquire (timeout_ms) all return: a step
\* of the update that can be taken is taken.
SpecTimeout == Init /\ [][TimeoutNext]_vars /\ WF_vars(TimeoutSteps)

\* The firmware published on the server changes, or the server stops giving
\* a usable answer.
ServerPublishes ==
    /\ \E r \in {{v} : v \in Versions} \cup {{}} : remote_version' = r
    /\ UNCHANGED <<outer, pure, observer, ota_current_state, ota_last_status, flags, ota_semaphore,
                   pc, ret, abort_called, locals, retry, hist, rest>>

\* Checks of one caller against a server whose published version varies.
CheckNext ==
    \/ ServerPublishes
    \/ CallerCheckStep
    \/ Returned

SpecCheck == Init /\ [][CheckNext]_vars

\* One thread calling catcollar_ota_check_and_update, with the completion
\* callbacks of the downloads it starts.
AutoNext ==
    \/ CheckAndUpdateCall
    \/ CallerCheckStep
    \/ CheckAndUpdateDecide
    \/ catcollar_ota_start_update
    \/ UpdateStep
    \/ CheckAndUpdateReturn
    \/ Returned
    \/ CallbackStep

SpecAuto == Init /\ [][AutoNext]_vars

\* ------------------------------------------------- the version comparisons
\* Any two versions are given to the comparisons.
CompareInit ==
    /\ ManagerInit
    /\ VariantInit
    /\ cmp_local \in Versions
    /\ cmp_remote \in Versions
    /\ cmp_result = "NONE"
    /\ ota_newer = "NONE"
    /\ version_str = <<>>
    /\ parse_status = "NONE"
    /\ parsed_version = {}
    /\ build_cfg = "configured"
    /\ get_status = "NONE"
    /\ vm_remote_version = {}
    /\ ota_bytes_downloaded = [hi |-> 0, lo |-> 0]
    /\ ota_total_bytes = [hi |-> 0, lo |-> 0]
    /\ percentage = {}

VersionManagerCompare ==
    /\ cmp_result' = version_manager_compare_versions(cmp_local, cmp_remote)
    /\ UNCHANGED <<ota_current_state, ota_last_status, flags, ota_semaphore,
                   pc, ret, abort_called, locals, retry, hist, rest,
                   remote_version, outer, variant, observer, cmp_local, cmp_remote, ota_newer,
                   parsing, progress>>

OtaCompare ==
    /\ ota_newer' = IF ota_compare_versions(cmp_local, cmp_remote)
                       THEN "true" ELSE "false"
    /\ UNCHANGED <<ota_current_state, ota_last_status, flags, ota_semaphore,
                   pc, ret, abort_called, locals, retry, hist, rest,
                   remote_version, outer, variant, observer, cmp_local, cmp_remote, cmp_result,
                   parsing, progress>>

CompareNext ==
    \/ VersionManagerCompare
    \/ OtaCompare

SpecCompare == CompareInit /\ [][CompareNext]_vars

\* ----------------------------------------------------- parse_version_string
\* A text is a sequence of tokens: a number (a run of digits with its sign,
\* as %d reads it), a dot, a white-space character or any other character.
Num(n) == [k |-> "num", v |-> n]
Dot == [k |-> "dot", v |-> 0]
Ws == [k |-> "ws", v |-> 0]
Other == [k |-> "other", v |-> 0]

\* Two runs of digits are never adjacent: they would be one run.
Tokenised(t) ==
    \A i \in 1..(Len(t) - 1) : ~(t[i].k = "num" /\ t[i + 1].k = "num")

\* Every text of up to MaxTextLen tokens, the texts of five fields, and the
\* texts of four fields whose values lie around the limits of the field types.
ShapeTexts ==
    {t \in UNION {[1..n -> {Num(1), Num(2), Dot, Ws, Other}] : n \in 0..MaxTextLen} :
        Tokenised(t)}
FiveFieldTexts ==
    {<<Num(a), Dot, Num(b), Dot, Num(c), Dot, Num(d), Dot, Num(e)>> :
        a \in {1}, b \in {2}, c \in {1, 2}, d \in {1, 2}, e \in {1, 2}}
LimitValues == {-1, 0, 255, 256, 65535, 65536}
LimitTexts ==
    {<<Num(a), Dot, Num(b), Dot, Num(c), Dot, Num(d)>> :
        a \in {0, 255, 256}, b \in {-1, 0, 256}, c \in {0, 255, 256},
        d \in LimitValues}
Texts == ShapeTexts \cup FiveFieldTexts \cup LimitTexts

\* lines 83-88: trailing white space is removed.
RECURSIVE StripTrailing(_)
StripTrailing(t) ==
    IF Len(t) > 0 /\ t[Len(t)].k = "ws"
       THEN StripTrailing(SubSeq(t, 1, Len(t) - 1))
       ELSE t

\* %d skips the white space in front of a number.
RECURSIVE SkipWs(_, _)
SkipWs(t, i) ==
    IF i <= Len(t) /\ t[i].k = "ws" THEN SkipWs(t, i + 1) ELSE i

\* sscanf(t, "%d.%d. ... %d") with n conversions, from position i: the values
\* converted before the first mismatch or the end of the format; what follows
\* the last conversion is not looked at.
RECURSIVE sscanf(_, _, _, _)
sscanf(t, i, n, got) ==
    IF n = 0 THEN got
    ELSE LET j == SkipWs(t, i) IN
         IF j > Len(t) \/ t[j].k # "num" THEN got
         ELSE IF n = 1 THEN Append(got, t[j].v)
         ELSE IF j + 1 <= Len(t) /\ t[j + 1].k = "dot"
                 THEN sscanf(t, j + 2, n - 1, Append(got, t[j].v))
                 ELSE Append(got, t[j].v)

\* version_manager.c lines 72-104: the status returned and the version
\* stored ({}: *version is not written).  The casts of lines 98-101 keep the
\* low 8 or 16 bits.
parse_version_string(t) ==
    LET f == sscanf(StripTrailing(t), 1, 4, <<>>) IN
    IF Len(f) # 4
       THEN [status |-> "SL_STATUS_INVALID_PARAMETER", version |-> {}]
       ELSE [status |-> "SL_STATUS_OK",
             version |-> {[major |-> f[1] % UINT8_MOD,
                           minor |-> f[2] % UINT8_MOD,
                           patch |-> f[3] % UINT8_MOD,
                           build |-> f[4] % UINT16_MOD]}]

\* simplified_version_downloader.c lines 240-264: the validator of the
\* three-part variant of the downloader.
simplified_validate_version_three_part(t) ==
    LET f == sscanf(t, 1, 3, <<>>) IN
    /\ Len(f) = 3
    /\ \A i \in 1..3 : f[i] >= 0 /\ f[i] <= UINT8_MAX

\* simplified_version_downloader.c lines 585-606: the validator of the
\* four-part variant.
simplified_validate_version(t) ==
    LET f == sscanf(t, 1, 4, <<>>) IN
    /\ Len(t) # 0
    /\ Len(f) = 4
    /\ \A i \in 1..3 : f[i] >= 0 /\ f[i] <= UINT8_MAX
    /\ f[4] >= 0 /\ f[4] <= UINT16_MOD - 1

\* The builds of version_manager.c: the macro of line 190 undefined, or
\* defined and linked with one of the two validators.
BuildConfigs == {"configured", "real_s3_three_part", "real_s3_four_part"}

\* line 212: "1.0.3.001".
ConfiguredVersionText == <<Num(1), Dot, Num(0), Dot, Num(3), Dot, Num(1)>>

\* lines 190-213: what version_buffer holds when it is parsed.
version_buffer(cfg, downloaded) ==
    IF cfg = "configured" THEN ConfiguredVersionText ELSE downloaded

\* Any text is given to the parser, in any build.
ParseInit ==
    /\ ManagerInit
    /\ VariantInit
    /\ cmp_local = catcollar_get_current_version
    /\ cmp_remote = catcollar_get_current_version
    /\ cmp_result = "NONE"
    /\ ota_newer = "NONE"
    /\ version_str \in Texts
    /\ parse_status = "NONE"
    /\ parsed_version = {}
    /\ build_cfg \in BuildConfigs
    /\ get_status = "NONE"
    /\ vm_remote_version = {}
    /\ ota_bytes_downloaded = [hi |-> 0, lo |-> 0]
    /\ ota_total_bytes = [hi |-> 0, lo |-> 0]
    /\ percentage = {}

ParseVersionString ==
    /\ parse_status' = parse_version_string(version_str).status
    /\ parsed_version' = parse_version_string(version_str).version
    /\ UNCHANGED <<ota_current_state, ota_last_status, flags, ota_semaphore,
                   pc, ret, abort_called, locals, retry, hist, rest,
                   remote_version, outer, variant, observer, compared, version_str, build_cfg,
                   get_status, vm_remote_version, progress>>

\* version_manager.c lines 174-232.  With USE_REAL_S3_VERSION_CHECK the text
\* of the server is downloaded and must pass simplified_validate_version;
\* without it the buffer is the text of line 212.
VersionManagerGetRemoteVersion ==
    LET valid == build_cfg = "real_s3_three_part"
                    => simplified_validate_version_three_part(version_str)
        valid4 == build_cfg = "real_s3_four_part"
                    => simplified_validate_version(version_str)
        r == parse_version_string(version_buffer(build_cfg, version_str))
    IN  /\ get_status' = IF valid /\ valid4 THEN r.status
                                             ELSE "SL_STATUS_INVALID_PARAMETER"
        /\ vm_remote_version' = IF valid /\ valid4 THEN r.version
                                                    ELSE vm_remote_version
        /\ UNCHANGED <<ota_current_state, ota_last_status, flags, ota_semaphore,
                       pc, ret, abort_called, locals, retry, hist, rest,
                       remote_version, outer, variant, observer, compared, version_str,
                       parse_status, parsed_version, build_cfg, progress>>

ParseNext ==
    \/ ParseVersionString
    \/ VersionManagerGetRemoteVersion

SpecParse == ParseInit /\ [][ParseNext]_vars

\* ------------------------------------ catcollar_ota_get_progress_percentage
Geq(x, y) == x.hi > y.hi \/ (x.hi = y.hi /\ x.lo >= y.lo)
Minus(x, y) ==
    IF x.lo >= y.lo THEN [hi |-> x.hi - y.hi, lo |-> x.lo - y.lo]
                    ELSE [hi |-> x.hi - y.hi - 1, lo |-> x.lo + UINT16_MOD - y.lo]
Twice(x, b) == Wide(2 * x.hi, 2 * x.lo + b)
Times100(x) == Wide(x.hi * 100, x.lo * 100)
Wrap32(x) == [hi |-> x.hi % UINT16_MOD, lo |-> x.lo]

\* Bit k of x, and the number of bits of the largest product x * 100.
BitOf(x, k) ==
    IF k < 16 THEN (x.lo \div (2 ^ k)) % 2 ELSE (x.hi \div (2 ^ (k - 16))) % 2
ProductBits == 39

\* x / y of C for unsigned operands, y not 0: binary long division from bit
\* k down, r the running remainder and q the quotient so far.  The test on
\* r3 and q2 is always true; it makes each step be evaluated before the next.
RECURSIVE Divide(_, _, _, _, _)
Divide(x, y, k, r, q) ==
    IF k < 0 THEN q
    ELSE LET r2 == Twice(r, BitOf(x, k))
             fits == Geq(r2, y)
             r3 == IF fits THEN Minus(r2, y) ELSE r2
             q2 == Twice(q, IF fits THEN 1 ELSE 0)
         IN  IF r3.lo >= 0 /\ q2.lo >= 0 THEN Divide(x, y, k - 1, r3, q2) ELSE q
Quotient(x, y) == Divide(x, y, ProductBits - 1, Zero32, Zero32)

\* The function without the clamp of line 299.
ProgressUnclamped(bytes, total) ==
    IF total = Zero32 THEN 0
    ELSE Quotient(Wrap32(Times100(bytes)), total).lo % UINT8_MOD

\* lines 292-300.  The product is a uint32_t (it wraps at 2^32) and the
\* quotient is narrowed to a uint8_t before it is compared with 100.
catcollar_ota_get_progress_percentage(bytes, total) ==
    IF total = Zero32 THEN 0
    ELSE LET narrowed == Quotient(Wrap32(Times100(bytes)), total).lo % UINT8_MOD
         IN  IF narrowed > 100 THEN 100 ELSE narrowed

\* The counter values tried: the small ones, the ones around the limits of
\* the narrowing and of the multiplication, and the largest ones.
Counters ==
    {Wide(0, n) : n \in 0..MaxCount}
      \cup {Wide(0, n) : n \in {99, 100, 101, 255, 256, 257, 300, 1000}}
      \cup {Wide(0, UINT16_MOD - 1), Wide(1, 0), Wide(655, 23592),
             Wide(655, 23593), Wide(32767, UINT16_MOD - 1), Wide(32768, 0),
             Wide(UINT16_MOD - 1, UINT16_MOD - 2), Max32}

\* Any pair of counter values is read.
ProgressInit ==
    /\ ManagerInit
    /\ VariantInit
    /\ cmp_local = catcollar_get_current_version
    /\ cmp_remote = catcollar_get_current_version
    /\ cmp_result = "NONE"
    /\ ota_newer = "NONE"
    /\ version_str = <<>>
    /\ parse_status = "NONE"
    /\ parsed_version = {}
    /\ build_cfg = "configured"
    /\ get_status = "NONE"
    /\ vm_remote_version = {}
    /\ ota_bytes_downloaded \in Counters
    /\ ota_total_bytes \in Counters
    /\ percentage = {}

GetProgressPercentage ==
    /\ percentage' = {catcollar_ota_get_progress_percentage(
                          ota_bytes_downloaded, ota_total_bytes)}
    /\ UNCHANGED <<ota_current_state, ota_last_status, flags, ota_semaphore,
                   pc, ret, abort_called, locals, retry, hist, rest,
                   remote_version, outer, variant, observer, compared, parsing,
                   ota_bytes_downloaded, ota_total_bytes>>

ProgressNext == GetProgressPercentage

SpecProgress == ProgressInit /\ [][ProgressNext]_vars

\* Updates of the caller thread, the network context completing the
\* downloads, the control context registering progress callbacks, and a
\* context that asks for the progress percentage at any moment.
CountersNext ==
    \/ \E m \in 0..MaxRetries : StartEnter(m)
    \/ UpdateStep
    \/ Returned
    \/ CallbackStep
    \/ CallbackInvokeProgress
    \/ \E cb \in Callbacks : SetProgressCallback(cb)
    \/ GetProgressPercentage

SpecCounters == Init /\ [][CountersNext]_vars

\* ---------------------------------------- wifi_ota, simple_ota and smart_ota
\* The wifi_ota manager (src/unnamed/part_005) with its two front ends
\* simple_ota and smart_ota (simplified_version_downloader.c).  Its functions
\* run to completion in the thread that calls them; wifi_ota_start_update is
\* followed statement by statement because the response handler, which runs
\* in the network context, and wifi_ota_cancel can come in between.

\* The number of simple_ota_start, smart_ota_check_and_update and
\* smart_ota_force_update calls that are followed.
MaxCalls == 2

\* simple_ota_is_in_progress (lines 754-760).
simple_ota_is_in_progress ==
    wifi_ota.current_ota_status \in {"INITIALIZING", "DOWNLOADING", "UPDATING"}

\* The callbacks simple_ota_start passes (lines 710-711) and the ones an
\* application passes to simple_ota_start_with_callbacks.
DefaultCallbacks ==
    <<"simple_ota_default_progress_callback",
      "simple_ota_default_complete_callback">>
SmartCallbacks == <<"smart_ota_progress_callback", "smart_ota_complete_callback">>
StartCallbacks == {DefaultCallbacks, <<"NULL", "NULL">>}

\* smart_ota_progress_callback (lines 846-864): the smart status it sets.
smart_ota_progress_callback(ota_status, cur) ==
    CASE ota_status = "DOWNLOADING" -> "DOWNLOADING"
      [] ota_status = "UPDATING" -> "UPDATING"
      [] ota_status = "UPDATE_COMPLETE" -> "COMPLETE"
      [] ota_status = "ERROR" -> "ERROR"
      [] OTHER -> cur

\* smart_ota_complete_callback (lines 867-876).
smart_ota_complete_callback(error) ==
    IF error = "WIFI_OTA_SUCCESS" THEN "COMPLETE" ELSE "ERROR"

\* What a call of the registered progress callback does to the smart status:
\* the default callback of simple_ota only logs (lines 646-674).
CallProgress(cb, ota_status, cur) ==
    IF cb = "smart_ota_progress_callback"
    THEN smart_ota_progress_callback(ota_status, cur)
    ELSE cur

\* The same for the completion callback (lines 677-706 only log).
CallComplete(cb, error, cur) ==
    IF cb = "smart_ota_complete_callback"
    THEN smart_ota_complete_callback(error)
    ELSE cur

\* wifi_ota_update_status (lines 34-40).
wifi_ota_update_status(new_status) ==
    /\ wifi_ota' = [wifi_ota EXCEPT !.current_ota_status = new_status]
    /\ current_status' =
          CallProgress(wifi_ota.progress_callback, new_status, current_status)

\* wifi_ota_notify_complete (lines 43-54), applied to the statics w and the
\* network record n its caller has prepared.
wifi_ota_notify_complete(error, w, n) ==
    /\ wifi_ota' = [w EXCEPT !.current_ota_status =
                       IF error = "WIFI_OTA_SUCCESS" THEN "UPDATE_COMPLETE"
                       ELSE "ERROR"]
    /\ current_status' = CallComplete(w.complete_callback, error, current_status)
    /\ wnet' = [n EXCEPT !.completions =
                   IF w.complete_callback # "NULL" THEN Append(@, error) ELSE @]

\* Everything of the enhanced manager and of the functions applied on their
\* own: no step of the variant touches it.
manager == <<ota_current_state, ota_last_status, flags, ota_semaphore, pc, ret,
             abort_called, locals, retry, hist, rest, remote_version, outer,
             compared, parsing, progress, observer>>

\* Thread t goes on to the statement at label.
WGoto(t, label) ==
    /\ wpc' = [wpc EXCEPT ![t] = label]
    /\ UNCHANGED <<wlocals, manager>>

\* simple_ota_start_with_callbacks returns status in thread t (lines 745-751):
\* to the application, or into smart_ota_version_check_callback (line 825) or
\* smart_ota_force_update (line 942).
WReturn(t, status) ==
    /\ wpc' = [wpc EXCEPT ![t] = CASE wlocals[t].via = "check" -> "m825"
                                   [] wlocals[t].via = "force" -> "f942"
                                   [] OTHER -> "idle"]
    /\ wlocals' = [wlocals EXCEPT ![t].status = status]
    /\ UNCHANGED manager

\* Thread t calls simple_ota_start_with_callbacks(cbs[1], cbs[2]) on behalf
\* of via.
EnterSimple(t, via, cbs) ==
    /\ wlocals' = [wlocals EXCEPT ![t] =
                      [via |-> via, progress_cb |-> cbs[1],
                       complete_cb |-> cbs[2],
                       at_call |-> wifi_ota.current_ota_status,
                       status |-> "NONE"]]
    /\ wpc' = [wpc EXCEPT ![t] = "s720"]

\* simple_ota_start (lines 708-712) or simple_ota_start_with_callbacks (line
\* 714) is called by the application.
SimpleOtaStart(t, cbs) ==
    /\ wpc[t] = "idle"
    /\ wnet.calls < MaxCalls
    /\ EnterSimple(t, "simple", cbs)
    /\ wnet' = [wnet EXCEPT !.calls = @ + 1]
    /\ UNCHANGED <<wifi_ota, current_status, manager>>

\* line 720: wifi_ota_init, whatever the status is.
SimpleInit(t) ==
    /\ wpc[t] = "s720"
    /\ wifi_ota' = wifi_ota_init
    /\ WGoto(t, "s727")
    /\ UNCHANGED <<current_status, wnet>>

\* lines 727-733
SimpleSetProgress(t) ==
    /\ wpc[t] = "s727"
    /\ wifi_ota' = IF wlocals[t].progress_cb # "NULL"
                   THEN [wifi_ota EXCEPT !.progress_callback =
                                             wlocals[t].progress_cb]
                   ELSE wifi_ota
    /\ WGoto(t, "s735")
    /\ UNCHANGED <<current_status, wnet>>

\* lines 735-741
SimpleSetComplete(t) ==
    /\ wpc[t] = "s735"
    /\ wifi_ota' = IF wlocals[t].complete_cb # "NULL"
                   THEN [wifi_ota EXCEPT !.complete_callback =
                                             wlocals[t].complete_cb]
                   ELSE wifi_ota
    /\ WGoto(t, "w292")
    /\ UNCHANGED <<current_status, wnet>>

\* wifi_ota_start_update, lines 292-298: the guard, and the first status.
WifiStartGuard(t) ==
    /\ wpc[t] = "w292"
    /\ IF wifi_ota.current_ota_status # "IDLE"
       THEN /\ WReturn(t, "SL_STATUS_INVALID_STATE")
            /\ UNCHANGED <<wifi_ota, current_status, wnet>>
       ELSE /\ wifi_ota_update_status("INITIALIZING")
            /\ wnet' = [wnet EXCEPT !.completions = <<>>, !.reported = FALSE]
            /\ WGoto(t, "w302")

\* lines 301-311: the certificate is loaded (LOAD_CERTIFICATE is 1 and FLAGS
\* has HTTPS_SUPPORT); sl_net_set_credential can fail.
LoadCertificates(t) ==
    /\ wpc[t] = "w302"
    /\ \E loaded \in BOOLEAN :
          IF loaded
          THEN /\ wifi_ota_update_status("INITIALIZING")
               /\ WGoto(t, "d218")
               /\ UNCHANGED wnet
          ELSE /\ wifi_ota_notify_complete(
                      "WIFI_OTA_ERROR_CERTIFICATE_LOAD_FAILED", wifi_ota, wnet)
               /\ WReturn(t, "SL_STATUS_FAIL")

\* wifi_ota_download_firmware, line 218
DownloadBegin(t) ==
    /\ wpc[t] = "d218"
    /\ wifi_ota_update_status("DOWNLOADING")
    /\ WGoto(t, "d222")
    /\ UNCHANGED wnet

\* lines 222-261: the host name is resolved (AWS_ENABLE).
ResolveHost(t) ==
    /\ wpc[t] = "d222"
    /\ \E resolved \in BOOLEAN :
          IF resolved
          THEN /\ wifi_ota_update_status("DOWNLOADING")
               /\ WGoto(t, "d271")
               /\ UNCHANGED wnet
          ELSE /\ wifi_ota_notify_complete("WIFI_OTA_ERROR_DNS_RESOLUTION",
                                           wifi_ota, wnet)
               /\ WReturn(t, "SL_STATUS_FAIL")

\* line 271: sl_si91x_http_otaf_v2 starts the download or fails.
StartDownload(t) ==
    /\ wpc[t] = "d271"
    /\ \E started \in BOOLEAN :
          /\ wnet' = IF started THEN [wnet EXCEPT !.outstanding = @ + 1]
                     ELSE wnet
          /\ WGoto(t, IF started THEN "d282" ELSE "d277")
    /\ UNCHANGED <<wifi_ota, current_status>>

\* lines 275-278
DownloadStartFailed(t) ==
    /\ wpc[t] = "d277"
    /\ wifi_ota_notify_complete("WIFI_OTA_ERROR_DOWNLOAD_FAILED", wifi_ota, wnet)
    /\ WReturn(t, "SL_STATUS_FAIL")

\* lines 282-285
SetUpdating(t) ==
    /\ wpc[t] = "d282"
    /\ wifi_ota_update_status("UPDATING")
    /\ WReturn(t, "SL_STATUS_OK")
    /\ UNCHANGED wnet

\* wifi_ota_cancel (lines 86-96), called in the control context.  Outside
\* Downloading and Updating it returns SL_STATUS_INVALID_STATE and changes
\* nothing.
WifiOtaCancel ==
    /\ wifi_ota.current_ota_status \in {"DOWNLOADING", "UPDATING"}
    /\ wifi_ota_notify_complete("WIFI_OTA_ERROR_TIMEOUT", wifi_ota, wnet)
    /\ UNCHANGED <<wpc, wlocals, manager>>

\* wifi_ota_fw_update_response_handler (lines 169-191): the network context
\* delivers the result of an outstanding download.
FwUpdateResponseHandler(failed) ==
    /\ wnet.outstanding > 0
    /\ wifi_ota_notify_complete(
           IF failed THEN "WIFI_OTA_ERROR_UPDATE_FAILED" ELSE "WIFI_OTA_SUCCESS",
           [wifi_ota EXCEPT !.ota_response = ~failed,
                            !.ota_callback_status =
                                IF failed THEN "SL_STATUS_FAIL"
                                ELSE "SL_STATUS_OK"],
           [wnet EXCEPT !.outstanding = @ - 1, !.reported = TRUE])
    /\ UNCHANGED <<wpc, wlocals, manager>>

\* smart_ota_check_and_update, lines 916-923.
SmartCheckAndUpdate(t) ==
    /\ wpc[t] = "idle"
    /\ IF current_status \notin {"IDLE", "NO_UPDATE_NEEDED", "COMPLETE", "ERROR"}
       THEN /\ wlocals' = [wlocals EXCEPT
                              ![t] = [NoFrame EXCEPT
                                         !.status = "SL_STATUS_ALREADY_EXISTS"]]
            /\ UNCHANGED <<current_status, wpc, wnet>>
       ELSE /\ wnet.calls < MaxCalls
            /\ wnet' = [wnet EXCEPT !.calls = @ + 1]
            /\ current_status' = "CHECKING_VERSION"
            /\ wpc' = [wpc EXCEPT ![t] = "m926"]
            /\ wlocals' = [wlocals EXCEPT ![t] = [NoFrame EXCEPT !.via = "check"]]
    /\ UNCHANGED <<wifi_ota, manager>>

\* line 926: version_manager_check_for_updates (version_manager.c lines
\* 259-298) calls smart_ota_version_check_callback before it returns: with an
\* error when the remote version cannot be had (lines 806-810, then 927-931),
\* else with the result of the comparison (lines 817-842).
VersionCheck(t) ==
    /\ wpc[t] = "m926"
    /\ \E result \in {"ERROR_DOWNLOAD", "NEWER", "SAME", "OLDER"} :
          /\ current_status' = CASE result = "ERROR_DOWNLOAD" -> "ERROR"
                                 [] result = "NEWER" -> "UPDATE_AVAILABLE"
                                 [] OTHER -> "NO_UPDATE_NEEDED"
          /\ wpc' = [wpc EXCEPT ![t] = IF result = "NEWER" THEN "m824" ELSE "idle"]
          /\ wlocals' = [wlocals EXCEPT ![t].status =
                            CASE result = "ERROR_DOWNLOAD" -> "SL_STATUS_FAIL"
                              [] result = "NEWER" -> "NONE"
                              [] OTHER -> "SL_STATUS_OK"]
    /\ UNCHANGED <<wifi_ota, wnet, manager>>

\* line 824: simple_ota_start(), that is with the default callbacks.
SmartStartOta(t) ==
    /\ wpc[t] = "m824"
    /\ EnterSimple(t, "check", DefaultCallbacks)
    /\ UNCHANGED <<wifi_ota, current_status, wnet, manager>>

\* lines 825-831, and smart_ota_check_and_update returns SL_STATUS_OK.
SmartAfterStart(t) ==
    /\ wpc[t] = "m825"
    /\ current_status' = IF wlocals[t].status = "SL_STATUS_OK" THEN "DOWNLOADING"
                         ELSE "ERROR"
    /\ wpc' = [wpc EXCEPT ![t] = "idle"]
    /\ wlocals' = [wlocals EXCEPT ![t].status = "SL_STATUS_OK"]
    /\ UNCHANGED <<wifi_ota, wnet, manager>>

\* smart_ota_force_update, lines 939-941: the only caller that registers the
\* callbacks of smart_ota.
SmartForceUpdate(t) ==
    /\ wpc[t] = "idle"
    /\ wnet.calls < MaxCalls
    /\ wnet' = [wnet EXCEPT !.calls = @ + 1]
    /\ current_status' = "UPDATE_AVAILABLE"
    /\ EnterSimple(t, "force", SmartCallbacks)
    /\ UNCHANGED <<wifi_ota, manager>>

\* lines 942-949
ForceAfterStart(t) ==
    /\ wpc[t] = "f942"
    /\ current_status' = IF wlocals[t].status = "SL_STATUS_OK" THEN "DOWNLOADING"
                         ELSE "ERROR"
    /\ wpc' = [wpc EXCEPT ![t] = "idle"]
    /\ UNCHANGED <<wifi_ota, wlocals, wnet, manager>>

\* One statement of simple_ota_start_with_callbacks and of the
\* wifi_ota_start_update it calls, in thread t.
StartStep(t) ==
    \/ SimpleInit(t)
    \/ SimpleSetProgress(t)
    \/ SimpleSetComplete(t)
    \/ WifiStartGuard(t)
    \/ LoadCertificates(t)
    \/ DownloadBegin(t)
    \/ ResolveHost(t)
    \/ StartDownload(t)
    \/ DownloadStartFailed(t)
    \/ SetUpdating(t)

\* Two application threads call simple_ota_start or
\* simple_ota_start_with_callbacks whenever they like; the control context
\* cancels and the network context delivers results.
SimpleNext ==
    \/ \E t \in WThreads, cbs \in StartCallbacks : SimpleOtaStart(t, cbs)
    \/ \E t \in WThreads : SimpleInit(t)
    \/ \E t \in WThreads : SimpleSetProgress(t)
    \/ \E t \in WThreads : SimpleSetComplete(t)
    \/ \E t \in WThreads : WifiStartGuard(t)
    \/ \E t \in WThreads : LoadCertificates(t)
    \/ \E t \in WThreads : DownloadBegin(t)
    \/ \E t \in WThreads : ResolveHost(t)
    \/ \E t \in WThreads : StartDownload(t)
    \/ \E t \in WThreads : DownloadStartFailed(t)
    \/ \E t \in WThreads : SetUpdating(t)
    \/ WifiOtaCancel
    \/ \E failed \in BOOLEAN : FwUpdateResponseHandler(failed)

SpecSimple == Init /\ [][SimpleNext]_vars

\* One application thread, which starts an update only when
\* simple_ota_is_in_progress says that none is running; the control context
\* cancels and the network context delivers results.
WifiNext ==
    \/ \E cbs \in StartCallbacks :
          ~simple_ota_is_in_progress /\ SimpleOtaStart("app", cbs)
    \/ SimpleInit("app")
    \/ SimpleSetProgress("app")
    \/ SimpleSetComplete("app")
    \/ WifiStartGuard("app")
    \/ LoadCertificates("app")
    \/ DownloadBegin("app")
    \/ ResolveHost("app")
    \/ StartDownload("app")
    \/ DownloadStartFailed("app")
    \/ SetUpdating("app")
    \/ WifiOtaCancel
    \/ \E failed \in BOOLEAN : FwUpdateResponseHandler(failed)

SpecWifi == Init /\ [][WifiNext]_vars

\* One application thread that uses smart_ota only.  It keeps calling
\* smart_ota_check_and_update, every statement that can run runs, and the
\* network processor delivers the result of every download it has started.
SmartNext ==
    \/ SmartCheckAndUpdate("app")
    \/ VersionCheck("app")
    \/ SmartStartOta("app")
    \/ SmartAfterStart("app")
    \/ SmartForceUpdate("app")
    \/ ForceAfterStart("app")
    \/ StartStep("app")
    \/ \E failed \in BOOLEAN : FwUpdateResponseHandler(failed)

SpecSmart ==
    /\ Init
    /\ [][SmartNext]_vars
    /\ SF_vars(SmartCheckAndUpdate("app"))
    /\ WF_vars(VersionCheck("app") \/ SmartStartOta("app")
               \/ SmartAfterStart("app") \/ ForceAfterStart("app")
               \/ StartStep("app"))
    /\ WF_vars(\E failed \in BOOLEAN : FwUpdateResponseHandler(failed))

\* ------------------------------------------------------------------ claims
\* Context c calls one of the two public operations.
Calls(c) ==
    \/ CheckEnter(c)
    \/ c = "caller" /\ \E m \in RetryArgs : StartEnter(m)

\* The step with which the update of the caller returns.
UpdateReturns == InUpdate("caller") /\ pc'["caller"] = "ret"

\* What a rejected call has to leave alone.
Statics == <<ota_current_state, ota_last_status, ota_retry_count,
             ota_operation_aborted, max_retry_count>>

\* The statuses that report a genuine failure.
GenuineFailureStatus ==
    {"DOWNLOAD_FAILED", "VERIFY_FAILED", "INSTALL_FAILED", "NETWORK_ERROR",
     "DNS_RESOLUTION_FAILED", "CERTIFICATE_ERROR", "TIMEOUT_ERROR"}

\* The statuses a failed attempt of the retry loop records.
AttemptFailureStatus ==
    {"DNS_RESOLUTION_FAILED", "TIMEOUT_ERROR", "DOWNLOAD_FAILED"}

\* The order of the states within one update.
StateRank(s) ==
    CASE s = "IDLE" -> 0
      [] s = "CHECKING_VERSION" -> 0
      [] s = "INITIALIZING" -> 1
      [] s = "RESOLVING_DNS" -> 2
      [] s = "DOWNLOADING" -> 3
      [] s = "VERIFYING" -> 4
      [] s = "INSTALLING" -> 5
      [] s = "REBOOTING" -> 6
      [] s = "SUCCESS" -> 7
      [] s = "FAILED" -> 7

\* C1: single-flight.  With the caller thread and the timer context both
\* calling the public operations, in every reachable state at most one check
\* or update is between passing its 'state == Idle' guard and returning.
C1_SingleFlight == ~(Active("caller") /\ Active("timer"))

\* C2: a check or a start called while the state is not Idle changes none of
\* state, last status, retry counter, abort flag and stored configuration on
\* its way to the guard, whatever the connectivity is, and at the guard it
\* returns Busy, again changing none of them.
C2_BusyNoMutation ==
    [][\A c \in Ctx :
         /\ (Calls(c) /\ ota_current_state # "IDLE")
               => (pc'[c] \in {"c140", "u197"} /\ UNCHANGED Statics)
         /\ (pc[c] \in {"c140", "u197"} /\ pc'[c] # pc[c]
                /\ ota_current_state # "IDLE")
               => /\ pc'[c] \notin {"c145", "u202"}
                  /\ c = "caller" => ret' = "SL_STATUS_BUSY"
                  /\ UNCHANGED Statics]_vars

\* C3: an accepted update that nobody aborts and whose attempts all fail
\* begins at most max_retries + 1 attempts and at most max_retries inter-retry
\* delays, and when its retries are exhausted it has made exactly
\* max_retries + 1 attempts and max_retries delays and returns with state
\* Failed and the status of a failed attempt.
C3_RetryBudget ==
    [][/\ SetInitializing => attempts < max_retry_count + 1
       /\ RetryDelay => delays < max_retry_count
       /\ RetriesExhausted
             => /\ attempts = max_retry_count + 1
                /\ delays = max_retry_count
                /\ ota_current_state' = "FAILED"
                /\ ota_last_status' \in AttemptFailureStatus]_vars

\* C4: the retry loop stops at the first successful attempt.  An attempt is
\* taken as successful only if its own download reported success; an attempt
\* whose wait was ended by a signal is not recorded as failed when its own
\* download reported success; and the update that succeeds at attempt k
\* returns Ok with state Success after exactly k attempts.
C4_StopsAtFirstSuccess ==
    [][/\ (DownloadTest /\ pc'["caller"] = "u412") => completion = "ok"
       /\ (DownloadFailed /\ sem_status = "osOK") => completion # "ok"
       /\ SetSuccess => /\ attempts = ota_retry_count + 1
                        /\ ota_current_state' = "SUCCESS"
                        /\ ret' = "SL_STATUS_OK"]_vars

\* C5: an abort called while the update is in state Downloading and blocked
\* in the download wait leaves a token for the waiter, and once that abort
\* has completed the update returns with state Failed and a status that is
\* none of the genuine-failure statuses.
C5_AbortDuringDownload ==
    [][abort_called = "waiting"
          => /\ (AbortRelease /\ pc["caller"] = "u409") => ota_semaphore' > 0
             /\ (UpdateReturns /\ apc = "idle")
                   => /\ ota_current_state' = "FAILED"
                      /\ ota_last_status' \notin GenuineFailureStatus]_vars

\* C6: abort wins over the running operation's own state writes.  Once an
\* abort called while an operation was active with the state not Idle has
\* completed, the operation does not overwrite the state Failed, and it
\* returns with state Failed.
C6_AbortWins ==
    [][(abort_called \in {"running", "waiting"} /\ apc = "idle")
          => /\ ota_current_state = "FAILED" => ota_current_state' = "FAILED"
             /\ pc'["caller"] = "ret" => ota_current_state' = "FAILED"]_vars

\* C7: abort is harmless when nothing is running.  While no operation is
\* active and the state is Idle, Failed or Success, no step of abort changes
\* the state, the status or the completion semaphore.
C7_AbortHarmlessWhenIdle ==
    [][(/\ AbortStep
        /\ \A c \in Ctx : pc[c] = "idle"
        /\ ota_current_state \in {"IDLE", "FAILED", "SUCCESS"})
          => UNCHANGED <<ota_current_state, ota_last_status,
                         ota_semaphore>>]_vars

\* C8: once abort has set the abort flag, the running update starts no new
\* attempt, begins no inter-retry or DNS back-off delay and calls neither the
\* name resolution nor the download primitive.
C8_AbortBeforeRetry ==
    [][ota_operation_aborted
          => ~(SetInitializing \/ RetryDelay \/ DnsDelay \/ DnsResolve
                  \/ OtafStart)]_vars

\* C9: an update during which abort was called, after the start was accepted
\* and completing before the update returns, returns SL_STATUS_ABORT, never
\* Ok and never Fail.
C9_AbortReportedDistinctly ==
    [][(UpdateReturns /\ abort_called # "none" /\ apc = "idle")
          => ret' = "SL_STATUS_ABORT"]_vars

\* C10: within one update the state only moves forward along Initializing,
\* ResolvingDns, Downloading, Verifying, Installing, Rebooting,
\* Success/Failed, except for the retry loop restarting at Initializing;
\* nothing follows Success.
C10_StateMonotonic ==
    [][(InUpdate("caller") /\ ota_current_state' # ota_current_state)
          => /\ ota_current_state # "SUCCESS"
             /\ \/ ota_current_state' = "INITIALIZING"
                \/ StateRank(ota_current_state')
                      > StateRank(ota_current_state)]_vars

\* C11: every update that reaches Success has passed, in order, through
\* Downloading, Verifying, Installing and Rebooting.  Verifying is entered
\* only from Downloading, Installing only from Verifying, Rebooting only from
\* Installing, and the update sets Success only from Rebooting.
C11_VerifiedBeforeInstall ==
    [][InUpdate("caller") /\ ota_current_state' # ota_current_state
          => /\ ota_current_state' = "VERIFYING"
                   => ota_current_state = "DOWNLOADING"
             /\ ota_current_state' = "INSTALLING"
                   => ota_current_state = "VERIFYING"
             /\ ota_current_state' = "REBOOTING"
                   => ota_current_state = "INSTALLING"
             /\ ota_current_state' = "SUCCESS"
                   => ota_current_state = "REBOOTING"]_vars

\* C12: the download wait is bounded.  When neither a completion callback
\* nor an abort ever arrives, every wait runs out after the timeout, and the
\* update returns after at most max_retries + 1 such waits: it is never found
\* waiting for a download in an attempt beyond its budget.
C12_WaitBounded ==
    pc["caller"] = "u409" => attempts <= max_retry_count + 1

\* C13: the download primitive is invoked only in an update one of whose name
\* resolutions succeeded, and an update that nobody aborted and all of whose
\* resolutions failed ends, when its retries are exhausted, with return code
\* Fail, state Failed and last status DnsResolutionFailed.
C13_DnsFailureOutcome ==
    [][/\ OtafStart => dns_resolved
       /\ (RetriesExhausted /\ ~dns_resolved /\ ~ota_operation_aborted
               /\ apc = "idle")
             => /\ ret' = "SL_STATUS_FAIL"
                /\ ota_current_state' = "FAILED"
                /\ ota_last_status' = "DNS_RESOLUTION_FAILED"]_vars

\* C14: one call of the resolver invokes the name resolution at most
\* OTA_MAX_DNS_RETRY_COUNT times (dns_retry_count counts the failed
\* invocations of the call), returns to the update at the first success
\* without a further attempt or delay, delays once after each of the first
\* four failures and not after the fifth, and, when nobody aborts, reports
\* failure only after five failed invocations.
C14_DnsRetryBudget ==
    [][/\ DnsResolve
             => /\ dns_retry_count < OTA_MAX_DNS_RETRY_COUNT
                /\ \/ pc'["caller"] = "u376" /\ dns_resolved'
                   \/ /\ dns_retry_count' = dns_retry_count + 1
                      /\ pc'["caller"] =
                            IF dns_retry_count' < OTA_MAX_DNS_RETRY_COUNT
                               THEN "d475" ELSE "d478"
       /\ DnsDelay => dns_retry_count \in 1..(OTA_MAX_DNS_RETRY_COUNT - 1)
       /\ (DnsWhile /\ ~ota_operation_aborted /\ pc'["caller"] = "u370")
             => dns_retry_count = OTA_MAX_DNS_RETRY_COUNT
       /\ (DnsWhile /\ ~ota_operation_aborted /\ pc'["caller"] = "d460")
             => dns_retry_count \in 1..(OTA_MAX_DNS_RETRY_COUNT - 1)]_vars

\* The fifth invocation of one resolver call has failed: the resolver is at
\* its loop test without having delayed again, and nobody has aborted.
C14_Witness ==
    /\ pc["caller"] = "d478"
    /\ dns_retry_count = OTA_MAX_DNS_RETRY_COUNT
    /\ ~ota_operation_aborted
    /\ ~dns_resolved

\* C15: the resolver looks at the abort flag before each resolution attempt
\* and after each back-off delay: with the flag set, neither the entry of the
\* resolver nor the end of a delay brings the caller to an invocation of the
\* name resolution (line 460).
C15_ResolverHonoursAbort ==
    [][(ota_operation_aborted /\ pc'["caller"] = "d460")
          => pc["caller"] = "d460"]_vars

\* The (major, minor, patch, build) order: server is strictly greater than
\* current.
Newer(current, server) ==
    \/ server.major > current.major
    \/ /\ server.major = current.major
       /\ \/ server.minor > current.minor
          \/ /\ server.minor = current.minor
             /\ \/ server.patch > current.patch
                \/ /\ server.patch = current.patch
                   /\ server.build > current.build

\* C16: a check accepted from Idle with the network up returns Ok with state
\* Idle, and with status UpdateAvailable exactly when the version published
\* on the server is greater than the local one in the (major, minor, patch,
\* build) order, otherwise NoUpdateAvailable.
C16_CheckOutcome ==
    [][(CheckSetStatus("caller") /\ remote_version # {})
          => /\ ret' = "SL_STATUS_OK"
             /\ ota_current_state' = "IDLE"
             /\ ota_last_status'
                   = IF \E v \in remote_version :
                            Newer(catcollar_get_current_version, v)
                        THEN "UPDATE_AVAILABLE" ELSE "NO_UPDATE_AVAILABLE"]_vars

\* C17: a check accepted from Idle that cannot obtain the remote version
\* returns an error with state Failed and status NetworkError: it does not go
\* on to compare versions and return to Idle.
C17_CheckFailure ==
    [][(CheckCompare("caller") /\ remote_version = {})
          => /\ ota_current_state' = "FAILED"
             /\ ota_last_status' = "NETWORK_ERROR"
             /\ ret' \notin {"NONE", "SL_STATUS_OK"}]_vars

\* C18: catcollar_ota_check_and_update starts an update only for a strictly
\* newer remote version: inside it the download primitive is invoked only
\* when the server publishes a version greater than the local one, so that a
\* downgrade never happens.
C18_NoDowngrade ==
    [][(OtafStart /\ outer = "u226")
          => \E v \in remote_version :
                Newer(catcollar_get_current_version, v)]_vars

\* C19: a firing of the periodic timer only performs a version check.  The
\* timer context is never anywhere but in catcollar_ota_check_for_updates,
\* and none of its steps starts an update or a download: a step of the timer
\* moves the state only to CheckingVersion or Idle, begins no attempt, asks
\* the network for no download and does not move the caller.
C19_TimerOnlyChecks ==
    [][pc'["timer"] # pc["timer"]
          => /\ pc'["timer"] \in {"idle", "c140", "c145", "c168", "c171", "c175"}
             /\ ota_current_state'
                   \in {ota_current_state, "CHECKING_VERSION", "IDLE"}
             /\ pending' = pending
             /\ current_pending' = current_pending
             /\ attempts' = attempts
             /\ ota_retry_count' = ota_retry_count
             /\ pc'["caller"] = pc["caller"]]_vars

\* The timer's check has found an update (it is about to record
\* UpdateAvailable) while the caller is idle and nothing has been started.
C19_Witness ==
    /\ pc["timer"] = "c171"
    /\ pc["caller"] = "idle"
    /\ ret = "NONE"
    /\ ota_current_state = "IDLE"
    /\ attempts = 0
    /\ pending = 0

\* C20: with the WiFi not connected, check_for_updates and start_update
\* return NotReady (the call ends at its first step, the connection test),
\* start no operation, ask the network for nothing and leave the state
\* unchanged.
C20_NotReadyWithoutNetwork ==
    [][(pc["caller"] = "idle" /\ pc'["caller"] = "ret")
          => /\ ret' = "SL_STATUS_NOT_READY"
             /\ ota_current_state' = ota_current_state
             /\ pending' = pending
             /\ attempts' = attempts]_vars

\* C21: a reader of the state and the status never sees a partially written
\* pair: whenever the state is Failed the status is a failure code, and
\* whenever the state is Success the status is DownloadSuccess.
C21_ConsistentSnapshot ==
    /\ ota_current_state = "FAILED" => ota_last_status \in GenuineFailureStatus
    /\ ota_current_state = "SUCCESS" => ota_last_status = "DOWNLOAD_SUCCESS"

\* C22: the configuration is immutable after initialization: no step of any
\* operation changes ota_config.max_retry_count, which keeps the value given
\* at initialization.
C22_ConfigImmutable ==
    [][/\ max_retry_count' = max_retry_count
       /\ max_retry_count' = OTA_MAX_RETRY_COUNT]_vars

\* C23: the version comparison is reflexive and antisymmetric: a version
\* compared with itself is Same, and remote is Newer than local exactly when
\* local is Older than remote.
C23_CompareAntisymmetric ==
    cmp_result # "NONE"
       => /\ cmp_local = cmp_remote => cmp_result = "VERSION_SAME"
          /\ cmp_result = "VERSION_NEWER"
                <=> version_manager_compare_versions(cmp_remote, cmp_local)
                       = "VERSION_OLDER"
          /\ cmp_result = "VERSION_OLDER"
                <=> version_manager_compare_versions(cmp_remote, cmp_local)
                       = "VERSION_NEWER"

\* Two versions that differ only in the build have been compared, the remote
\* one being the older.
C23_Witness ==
    /\ cmp_result = "VERSION_OLDER"
    /\ cmp_local.major = cmp_remote.major
    /\ cmp_local.minor = cmp_remote.minor
    /\ cmp_local.patch = cmp_remote.patch
    /\ cmp_remote.build < cmp_local.build

\* The place of a version in the (major, minor, patch, build) order, as one
\* number.
VersionKey(v) ==
    ((v.major * (MaxField + 1) + v.minor) * (MaxField + 1) + v.patch)
        * (MaxField + 1) + v.build

\* C24: version_manager_compare_versions(local, remote) is Newer, Same or
\* Older exactly when remote is greater than, equal to or less than local in
\* the lexicographic order on (major, minor, patch, build), and
\* ota_compare_versions(current, server) is true exactly when that result is
\* Newer.
C24_CompareLexicographic ==
    /\ cmp_result # "NONE"
          => cmp_result =
                IF VersionKey(cmp_remote) > VersionKey(cmp_local)
                   THEN "VERSION_NEWER"
                ELSE IF VersionKey(cmp_remote) = VersionKey(cmp_local)
                   THEN "VERSION_SAME"
                ELSE "VERSION_OLDER"
    /\ ota_newer # "NONE"
          => (ota_newer = "true"
                 <=> version_manager_compare_versions(cmp_local, cmp_remote)
                        = "VERSION_NEWER")

\* Both comparisons have been applied to a remote version that is lower in
\* the patch and higher in the build.
C24_Witness ==
    /\ cmp_result = "VERSION_OLDER"
    /\ ota_newer = "false"
    /\ cmp_remote.major = cmp_local.major
    /\ cmp_remote.minor = cmp_local.minor
    /\ cmp_remote.patch < cmp_local.patch
    /\ cmp_remote.build > cmp_local.build

\* The text is exactly n numbers separated by single dots.
IsFields(t, n) ==
    /\ Len(t) = 2 * n - 1
    /\ \A i \in 1..Len(t) :
          t[i].k = IF i % 2 = 1 THEN "num" ELSE "dot"

\* C25: version parsing accepts exactly the texts made of 3 or 4
\* dot-separated numeric fields: a.b.c.d gives (a, b, c, d), a.b.c gives
\* (a, b, c, 0), and every other text is rejected and produces no version.
C25_ParseShape ==
    parse_status # "NONE"
       => IF IsFields(version_str, 4)
             THEN /\ parse_status = "SL_STATUS_OK"
                  /\ \A v \in parsed_version :
                        /\ v.major = version_str[1].v % UINT8_MOD
                        /\ v.minor = version_str[3].v % UINT8_MOD
                        /\ v.patch = version_str[5].v % UINT8_MOD
                        /\ v.build = version_str[7].v % UINT16_MOD
                  /\ parsed_version # {}
          ELSE IF IsFields(version_str, 3)
             THEN /\ parse_status = "SL_STATUS_OK"
                  /\ parsed_version
                        = {[major |-> version_str[1].v % UINT8_MOD,
                            minor |-> version_str[3].v % UINT8_MOD,
                            patch |-> version_str[5].v % UINT8_MOD,
                            build |-> 0]}
          ELSE /\ parse_status # "SL_STATUS_OK"
               /\ parsed_version = {}

\* The numeric value of field i of a text of four fields.
FieldValue(t, i) == t[2 * i - 1].v

InRange(t) ==
    /\ \A i \in 1..3 : FieldValue(t, i) \in 0..UINT8_MAX
    /\ FieldValue(t, 4) \in 0..(UINT16_MOD - 1)

\* C26: every remote version produced by version_manager_get_remote_version
\* has been range-validated: when the server's text has four fields and one
\* of them is out of range the call fails and stores no version, and a
\* version that is stored has exactly the numeric values of the text.
C26_RangeValidated ==
    (get_status # "NONE" /\ build_cfg # "configured" /\ IsFields(version_str, 4))
       => /\ ~InRange(version_str)
             => get_status # "SL_STATUS_OK" /\ vm_remote_version = {}
          /\ \A v \in vm_remote_version :
                /\ v.major = FieldValue(version_str, 1)
                /\ v.minor = FieldValue(version_str, 2)
                /\ v.patch = FieldValue(version_str, 3)
                /\ v.build = FieldValue(version_str, 4)

\* C27: catcollar_ota_get_progress_percentage returns a value in 0..100 for
\* every pair of counters, bytes_downloaded above total_bytes included, and
\* 0 when total_bytes is 0.
C27_PercentageInRange ==
    \A p \in percentage :
        /\ p \in 0..100
        /\ ota_total_bytes = Zero32 => p = 0

\* The quotient does not fit a uint8_t and the clamp is what bounds the result.
C27_Witness ==
    /\ percentage = {100}
    /\ ota_total_bytes # Zero32
    /\ Geq(ota_bytes_downloaded, ota_total_bytes)
    /\ ProgressUnclamped(ota_bytes_downloaded, ota_total_bytes) > 100

\* min(100, floor(bytes * 100 / total)) in exact arithmetic.
ExactPercentage(bytes, total) ==
    LET q == Quotient(Times100(bytes), total) IN
    IF Geq(q, Wide(0, 100)) THEN 100 ELSE q.lo

C29_SingleObserver ==
    (cpc = "h567" /\ event.after = <<"cb1", "cb2">> /\ registrations = event.after)
       => event.invoked = IF event.failed THEN <<>> ELSE <<"cb2">>

\* A successful event delivered after both registrations has called cb2.
C29_Witness ==
    /\ cpc = "h567"
    /\ event.after = <<"cb1", "cb2">>
    /\ registrations = event.after
    /\ ~event.failed
    /\ event.invoked = <<"cb2">>

\* C30: the manager recovers from a terminal state without being initialised
\* again: from Failed or Success, public operations other than init bring the
\* state back to Idle, so that a later check or update is accepted.
C30_Recoverable ==
    (ota_current_state \in {"FAILED", "SUCCESS"}) ~> (ota_current_state = "IDLE")

\* C31: the wait of a download attempt is ended only by a signal raised for
\* that same attempt.  A token taken at line 409 was released by the
\* completion callback of the attempt's own download or by an abort of this
\* update; an attempt is taken as successful only when its own download
\* succeeded, and is set to DownloadFailed after a wake-up only when its own
\* download failed.
C31_OwnSignalOnly ==
    [][/\ (SemAcquire /\ sem_status' = "osOK")
            => (completion # "none" \/ ota_operation_aborted)
       /\ SetSuccess => completion = "ok"
       /\ (DownloadFailed /\ sem_status = "osOK") => completion = "failed"]_vars

\* C32: whenever an accepted catcollar_ota_start_update_with_retry returns
\* (lines 352, 427, 432 and 448: Abort, Ok, Abort and Fail), the state is
\* Success or Failed and no transient state, in every interleaving with
\* catcollar_ota_abort and with the completion callback.
C32_ReturnsTerminal ==
    [][((LoopHead \/ SetSuccess \/ AbortTest \/ RetriesExhausted)
           /\ pc'["caller"] = "ret")
          => ota_current_state' \in {"SUCCESS", "FAILED"}]_vars

\* C33: catcollar_ota_start_update_with_retry terminates for every
\* max_retries in 0..255.  The increment of the 8-bit attempt counter after a
\* failed attempt never wraps around, and the loop test that follows the
\* failure of attempt max_retries + 1 leaves the loop.
C33_CounterNeverWraps ==
    [][/\ (DnsFailed \/ StartFailed \/ DownloadFailed)
            => ota_retry_count' = ota_retry_count + 1
       /\ (LoopHead /\ attempts = max_retry_count + 1)
            => pc'["caller"] = "u447"]_vars

StartLabels == {"s720", "s727", "s735", "w292", "w302", "d218", "d222", "d271",
                "d277", "d282"}

\* C36: a simple_ota_start (or simple_ota_start_with_callbacks) called while
\* the wifi OTA status is Initializing, Downloading or Updating is rejected by
\* the not-Idle guard of wifi_ota_start_update: no statement of the call
\* changes the status or the registered callbacks of the running update,
\* none starts a second download, and the call returns
\* SL_STATUS_INVALID_STATE.
C36_SecondStartRejected ==
    [][\A t \in WThreads :
          (/\ wpc[t] \in StartLabels
           /\ wpc'[t] # wpc[t]
           /\ wlocals[t].at_call \in {"INITIALIZING", "DOWNLOADING", "UPDATING"})
          => /\ wifi_ota'.current_ota_status = wifi_ota.current_ota_status
             /\ wifi_ota'.progress_callback = wifi_ota.progress_callback
             /\ wifi_ota'.complete_callback = wifi_ota.complete_callback
             /\ wnet'.outstanding = wnet.outstanding
             /\ (wpc'[t] \notin StartLabels
                    => wlocals'[t].status = "SL_STATUS_INVALID_STATE")]_vars

\* C37: each started update reports exactly one final outcome.  From the
\* moment wifi_ota_start_update passes its guard until the next start, the
\* completion callback is invoked at most once, and once it has been invoked
\* the status does not change again (the wifi_ota_init of the next
\* simple_ota_start apart).
C37_OneFinalOutcome ==
    [][/\ Len(wnet'.completions) <= 1
       /\ (/\ Len(wnet.completions) >= 1
           /\ Len(wnet'.completions) >= 1
           /\ ~SimpleInit("app"))
          => wifi_ota'.current_ota_status = wifi_ota.current_ota_status]_vars

\* C38: an update started by smart_ota_check_and_update eventually leaves the
\* in-progress statuses: once the firmware-update response handler has
\* reported its result, smart_ota_get_status becomes Complete or Error (so
\* that a later smart_ota_check_and_update is accepted again).
C38_SmartUpdateEnds ==
    (wlocals["app"].via = "check" /\ wnet.reported)
        ~> (current_status \in {"COMPLETE", "ERROR"})

====
